---- MODULE Spec2Model ----
(***************************************************************************)
(* Model of hugo-link-checker: the scanner's link classification, the      *)
(* checker's CheckLinks pass with its validators and resolvers, the        *)
(* broken-link counter, the scanner's link extraction, and main's pipeline *)
(* of extraction, ignore filter, validation and exit code.                 *)
(*                                                                         *)
(* Go strings are modelled as sequences of one-character strings, so that  *)
(* prefix tests, substring search, cutting and trimming are computed the   *)
(* way the code computes them.                                             *)
(***************************************************************************)
EXTENDS Integers, Sequences, FiniteSets, TLC

VARIABLES
    files,          \* []*scanner.File handed to CheckLinks: a sequence of pages, each a sequence of Link records
    rootDir,        \* CheckLinks parameter rootDir
    checkExternal,  \* CheckLinks parameter checkExternal
    checkPublic,    \* CheckLinks parameter checkPublic
    baseURL,        \* CheckLinks parameter baseURL
    verbose,        \* CheckLinks parameter verbose
    fs,             \* the filesystem: the set of paths of existing regular files
    pc,             \* position of the run: "check", "count", "done", or "call" for a single function call
    fi,             \* index of the page the loop of CheckLinks is at
    li,             \* index of the link the loop of CheckLinks is at
    now,            \* the wall clock read by time.Now()
    ret,            \* return value of CheckLinks or ParseLinksFromFile: "none" before it returns, then "nil" or "error"
    log,            \* the trace of the run: every filesystem test, network probe, line written and function return recorded so far, in order
    brokenCount,    \* result of CountBrokenLinks, -1 before it has run
    made,           \* the links last built: the result of a NewLink call as a one-element sequence, or a page's links as they were when applyIgnorePatterns was called
    patterns,       \* main's ignorePatterns, in the order of the ignore file
    noReport,       \* main's -no-report flag
    parsed,         \* the number of ParseLinksFromFile calls made so far
    exitCode,       \* the exit status of the process, -1 while it runs
    extensions      \* the extensions EnumerateFiles is called with

vars == <<files, rootDir, checkExternal, checkPublic, baseURL, verbose, fs,
          pc, fi, li, now, ret, log, brokenCount, made,
          patterns, noReport, parsed, exitCode, extensions>>

\* the state of main's variables where main is not modelled
MainIdle ==
    /\ patterns = <<>>
    /\ noReport = FALSE
    /\ extensions = <<>>
    /\ parsed = 0
    /\ exitCode = -1

----------------------------------------------------------------------------
(* Bounds of the model *)

\* longest generated tail of a URL handed to NewLink
MaxTailLen == 3
\* most links in the pages of a batch handed to CheckLinks
MaxLinks == 2
\* most links in the pages handed to CountBrokenLinks alone
MaxCountLinks == 2

----------------------------------------------------------------------------
(* Go string primitives on sequences of characters *)

\* s[from:] of Go, with a 0-based from
Drop(s, n) == IF n >= Len(s) THEN <<>> ELSE SubSeq(s, n + 1, Len(s))

\* s[:to] of Go
Take(s, n) == IF n <= 0 THEN <<>> ELSE SubSeq(s, 1, IF n > Len(s) THEN Len(s) ELSE n)

\* strings.HasPrefix
HasPrefix(s, p) == Len(p) <= Len(s) /\ SubSeq(s, 1, Len(p)) = p

\* strings.HasSuffix
HasSuffix(s, p) == Len(p) <= Len(s) /\ SubSeq(s, Len(s) - Len(p) + 1, Len(s)) = p

\* the 1-based positions at which sub occurs in s
Occurrences(s, sub) ==
    { i \in 1..(Len(s) - Len(sub) + 1) : SubSeq(s, i, i + Len(sub) - 1) = sub }

\* strings.Contains
Contains(s, sub) == Occurrences(s, sub) # {}

\* the least element of a non-empty set of integers
MinOf(S) == CHOOSE x \in S : \A y \in S : x <= y

\* the greatest element of a non-empty set of integers
MaxOf(S) == CHOOSE x \in S : \A y \in S : x >= y

\* strings.Index, 1-based, 0 when sub does not occur (Go: 0-based, -1)
Index(s, sub) == IF Contains(s, sub) THEN MinOf(Occurrences(s, sub)) ELSE 0

\* strings.LastIndex, 1-based, 0 when sub does not occur
LastIndex(s, sub) == IF Contains(s, sub) THEN MaxOf(Occurrences(s, sub)) ELSE 0

\* strings.Cut: the text before the first sep
CutBefore(s, sep) == IF Contains(s, sep) THEN Take(s, Index(s, sep) - 1) ELSE s

\* strings.Cut: the text after the first sep (empty when sep does not occur)
CutAfter(s, sep) ==
    IF Contains(s, sep) THEN Drop(s, Index(s, sep) - 1 + Len(sep)) ELSE <<>>

\* strings.TrimPrefix
TrimPrefix(s, p) == IF HasPrefix(s, p) THEN Drop(s, Len(p)) ELSE s

\* strings.TrimSuffix
TrimSuffix(s, p) == IF HasSuffix(s, p) THEN Take(s, Len(s) - Len(p)) ELSE s

\* strings.TrimLeft with a one-character cutset
RECURSIVE TrimLeft(_, _)
TrimLeft(s, c) == IF s # <<>> /\ Head(s) = c THEN TrimLeft(Tail(s), c) ELSE s

\* strings.TrimRight with a one-character cutset
RECURSIVE TrimRight(_, _)
TrimRight(s, c) ==
    IF s # <<>> /\ s[Len(s)] = c THEN TrimRight(Take(s, Len(s) - 1), c) ELSE s

\* len(strings.Split(s, sep)) for a non-empty one-character sep
SplitCount(s, sep) == Cardinality(Occurrences(s, sep)) + 1

\* strings.Split(s, sep)[1], the second part (requires sep to occur)
SplitSecond(s, sep) == CutBefore(CutAfter(s, sep), sep)

Letters == {"a", "b", "c", "d", "e", "f", "g", "h", "i", "j", "k", "l", "m",
            "n", "o", "p", "q", "r", "s", "t", "u", "v", "w", "x", "y", "z",
            "A", "B", "C", "D", "E", "F", "M"}

Digits == {"0", "1", "2", "3", "4", "5", "6", "7", "8", "9"}

HexDigits == Digits \cup {"a", "b", "c", "d", "e", "f", "A", "B", "C", "D", "E", "F"}

\* the hexadecimal digits whose value is below 8
LowHexDigits == {"0", "1", "2", "3", "4", "5", "6", "7"}

----------------------------------------------------------------------------
(* net/url.Parse, as far as isInternalLink and checkMailtoLink use it:     *)
(* whether parsing succeeds, and the Scheme, Host and Opaque fields.       *)
(* The model's strings have no control bytes, spaces or brackets.          *)

\* net/url getScheme: the index of the colon ending the scheme, 0 for no
\* scheme, -1 for the error "missing protocol scheme"
RECURSIVE SchemeEnd(_, _)
SchemeEnd(s, i) ==
    IF i > Len(s) THEN 0
    ELSE IF s[i] \in Letters THEN SchemeEnd(s, i + 1)
    ELSE IF s[i] \in Digits \cup {"+", "-", "."}
         THEN (IF i = 1 THEN 0 ELSE SchemeEnd(s, i + 1))
    ELSE IF s[i] = ":" THEN (IF i = 1 THEN -1 ELSE i)
    ELSE 0

\* net/url unescape: a "%" that is not followed by two hexadecimal digits
BadEscape(s) ==
    \E i \in 1..Len(s) :
        /\ s[i] = "%"
        /\ ~(i + 2 <= Len(s) /\ s[i + 1] \in HexDigits /\ s[i + 2] \in HexDigits)

\* net/url unescape in host mode: besides bad escapes, an escape of an ASCII
\* byte other than %25, or a character that a host may not contain
BadHost(h) ==
    \/ BadEscape(h)
    \/ \E i \in 1..Len(h) :
          /\ h[i] = "%"
          /\ h[i + 1] \in LowHexDigits
          /\ SubSeq(h, i, i + 2) # <<"%", "2", "5">>
    \/ \E i \in 1..Len(h) :
          h[i] \notin Letters \cup Digits \cup
                      {"%", "!", "$", "&", "'", "(", ")", "*", "+", ",", ";",
                       "=", ":", "<", ">", "-", "_", ".", "~"}

\* net/url validOptionalPort applied to the text from the last colon of the host
BadPort(h) ==
    /\ Contains(h, <<":">>)
    /\ \E i \in (LastIndex(h, <<":">>) + 1)..Len(h) : h[i] \notin Digits

\* net/url validUserinfo
BadUserinfo(u) ==
    \E i \in 1..Len(u) :
        u[i] \notin Letters \cup Digits \cup
                    {"-", ".", "_", ":", "~", "!", "$", "&", "'", "(", ")",
                     "*", "+", ",", ";", "=", "%", "@"}

\* the result of a failed parse
ParseError == [ok |-> FALSE, Scheme |-> <<>>, Host |-> <<>>, Opaque |-> <<>>]

\* net/url parseAuthority: the host part of an authority
AuthorityHost(a) ==
    IF Contains(a, <<"@">>) THEN Drop(a, LastIndex(a, <<"@">>)) ELSE a

\* net/url parseAuthority fails
BadAuthority(a) ==
    \/ BadPort(AuthorityHost(a))
    \/ BadHost(AuthorityHost(a))
    \/ /\ Contains(a, <<"@">>)
       /\ \/ BadUserinfo(Take(a, LastIndex(a, <<"@">>) - 1))
          \/ BadEscape(Take(a, LastIndex(a, <<"@">>) - 1))

\* net/url parse (viaRequest = false) on the text before the fragment
ParseNoFragment(raw) ==
    LET se     == SchemeEnd(raw, 1)
        scheme == IF se > 0 THEN Take(raw, se - 1) ELSE <<>>
        after  == IF se > 0 THEN Drop(raw, se) ELSE raw
        rest   == CutBefore(after, <<"?">>)
        hasAuth == /\ (scheme # <<>> \/ ~HasPrefix(rest, <<"/", "/", "/">>))
                   /\ HasPrefix(rest, <<"/", "/">>)
        auth   == CutBefore(Drop(rest, 2), <<"/">>)
        path   == IF hasAuth THEN Drop(rest, 2 + Len(auth)) ELSE rest
    IN  IF raw = <<"*">> THEN [ok |-> TRUE, Scheme |-> <<>>, Host |-> <<>>, Opaque |-> <<>>]
        ELSE IF se = -1 THEN ParseError
        ELSE IF ~HasPrefix(rest, <<"/">>) /\ scheme # <<>>
             THEN [ok |-> TRUE, Scheme |-> scheme, Host |-> <<>>, Opaque |-> rest]
        ELSE IF ~HasPrefix(rest, <<"/">>) /\ Contains(CutBefore(rest, <<"/">>), <<":">>)
             THEN ParseError
        ELSE IF hasAuth /\ BadAuthority(auth) THEN ParseError
        ELSE IF BadEscape(path) THEN ParseError
        ELSE [ok |-> TRUE, Scheme |-> scheme,
              Host |-> IF hasAuth THEN AuthorityHost(auth) ELSE <<>>,
              Opaque |-> <<>>]

\* net/url.Parse: cut the fragment, parse the rest, then validate the fragment
UrlParse(raw) ==
    LET u == ParseNoFragment(CutBefore(raw, <<"#">>))
    IN  IF ~u.ok THEN ParseError
        ELSE IF BadEscape(CutAfter(raw, <<"#">>)) THEN ParseError
        ELSE u

----------------------------------------------------------------------------
(* scanner: Link, isInternalLink, NewLink *)

LinkTypeInternal == 0
LinkTypeExternal == 1

\* the empty error message
NoError == [fmt |-> "", code |-> 0, args |-> <<>>]

\* isInternalLink with only the host test
isInternalLinkHostOnly(linkURL) ==
    LET u == UrlParse(linkURL)
    IN  IF ~u.ok THEN TRUE
        ELSE IF u.Host # <<>> THEN FALSE
        ELSE TRUE

isInternalLink(linkURL) ==
    LET u == UrlParse(linkURL)
    IN  IF ~u.ok THEN TRUE
        ELSE IF u.Scheme # <<>> \/ u.Host # <<>> THEN FALSE
        ELSE TRUE

\* a Link value; the zero time is 0
MkLink(url, type, ignored) ==
    [URL |-> url, Type |-> type, Ignored |-> ignored,
     StatusCode |-> 0, ErrorMessage |-> NoError, LastChecked |-> 0]

NewLink(linkURL) ==
    MkLink(linkURL,
           IF ~isInternalLink(linkURL) THEN LinkTypeExternal ELSE LinkTypeInternal,
           FALSE)

----------------------------------------------------------------------------
(* scanner: ParseLinksFromFile.  The text of a file is a sequence of lines; *)
(* a line is the sequence of the link notations in it, left to right, each *)
(* with the index of the regular expression that matches it and the text   *)
(* that expression captures as the URL.                                    *)

\* indices into linkRegexes: [text](url), <http://...>, [ref]: url,
\* <a href="url">, <link href="url">
RegexIndexes == <<1, 2, 3, 4, 5>>

\* strings.TrimSpace, the model's only white space being the space
TrimSpace(s) == TrimRight(TrimLeft(s, " "), " ")

\* the URL kept from a capture: trimmed, cut at the first space and at the
\* first double quote, trimmed again; empty for an empty trimmed capture
CleanCapture(raw) ==
    IF TrimSpace(raw) = <<>> THEN <<>>
    ELSE TrimSpace(CutBefore(CutBefore(TrimSpace(raw), <<" ">>), <<"\"">>))

\* the captures of one line in the order the loops meet them: regular
\* expression by regular expression, and left to right for each
RECURSIVE Captures(_, _)
Captures(line, k) ==
    IF k > Len(RegexIndexes) THEN <<>>
    ELSE [i \in 1..Len(SelectSeq(line, LAMBDA m : m.regex = RegexIndexes[k])) |->
              SelectSeq(line, LAMBDA m : m.regex = RegexIndexes[k])[i].capture]
         \o Captures(line, k + 1)

\* the innermost loop body over a sequence of captures: r.Links grows by the
\* new URLs and r.linkMap records them
RECURSIVE AddLinks(_, _)
AddLinks(caps, r) ==
    IF caps = <<>> THEN r
    ELSE LET linkURL == CleanCapture(Head(caps))
         IN  IF linkURL = <<>> \/ linkURL = <<"#">> \/ linkURL \in r.linkMap
             THEN AddLinks(Tail(caps), r)
             ELSE AddLinks(Tail(caps),
                           [Links   |-> Append(r.Links, NewLink(linkURL)),
                            linkMap |-> r.linkMap \cup {linkURL}])

\* the loop over the lines the scanner delivers
RECURSIVE ScanLines(_, _)
ScanLines(lines, r) ==
    IF lines = <<>> THEN r
    ELSE ScanLines(Tail(lines), AddLinks(Captures(Head(lines), 1), r))

\* ParseLinksFromFile: opened is whether os.Open succeeds, n the number of
\* lines the scanner delivers before it stops (all of them, or fewer when it
\* stops on a read error).  linkMap starts empty in every call and the
\* links found are appended to file.Links.
ParseLinksFromFile(file, opened, n) ==
    IF ~opened THEN [Links |-> file.Links, err |-> TRUE]
    ELSE [Links |-> ScanLines(Take(file.Text, n), [Links |-> file.Links, linkMap |-> {}]).Links,
          err   |-> n < Len(file.Text)]

----------------------------------------------------------------------------
(* path/filepath on slash-separated paths *)

\* the elements of a path between its slashes, empty elements dropped
RECURSIVE Segments(_)
Segments(p) ==
    IF p = <<>> THEN <<>>
    ELSE IF Head(p) = "/" THEN Segments(Tail(p))
    ELSE <<CutBefore(p, <<"/">>)>> \o Segments(Drop(p, Len(CutBefore(p, <<"/">>))))

\* filepath.Clean: the lexical processing of "." and ".." elements
RECURSIVE CleanSegments(_, _, _)
CleanSegments(segs, out, rooted) ==
    IF segs = <<>> THEN out
    ELSE IF Head(segs) = <<".">> THEN CleanSegments(Tail(segs), out, rooted)
    ELSE IF Head(segs) = <<".", ".">>
         THEN IF out # <<>> /\ out[Len(out)] # <<".", ".">>
              THEN CleanSegments(Tail(segs), Take(out, Len(out) - 1), rooted)
              ELSE IF rooted THEN CleanSegments(Tail(segs), out, rooted)
              ELSE CleanSegments(Tail(segs), Append(out, Head(segs)), rooted)
    ELSE CleanSegments(Tail(segs), Append(out, Head(segs)), rooted)

\* the elements joined by slashes
RECURSIVE JoinSegments(_)
JoinSegments(segs) ==
    IF segs = <<>> THEN <<>>
    ELSE IF Len(segs) = 1 THEN Head(segs)
    ELSE Head(segs) \o <<"/">> \o JoinSegments(Tail(segs))

\* filepath.Clean
Clean(p) ==
    LET rooted == HasPrefix(p, <<"/">>)
        body   == JoinSegments(CleanSegments(Segments(p), <<>>, rooted))
    IN  IF rooted THEN <<"/">> \o body
        ELSE IF body = <<>> THEN <<".">>
        ELSE body

\* the non-empty elements of a list, joined by slashes
RECURSIVE JoinRaw(_)
JoinRaw(elems) ==
    IF elems = <<>> THEN <<>>
    ELSE IF Head(elems) = <<>> THEN JoinRaw(Tail(elems))
    ELSE IF JoinRaw(Tail(elems)) = <<>> THEN Head(elems)
    ELSE Head(elems) \o <<"/">> \o JoinRaw(Tail(elems))

\* filepath.Join: empty elements are ignored, the result is cleaned, and
\* joining nothing but empty elements gives the empty string
Join(elems) == IF JoinRaw(elems) = <<>> THEN <<>> ELSE Clean(JoinRaw(elems))

\* filepath.Base
Base(p) ==
    IF p = <<>> THEN <<".">>
    ELSE IF TrimRight(p, "/") = <<>> THEN <<"/">>
    ELSE Drop(TrimRight(p, "/"), LastIndex(TrimRight(p, "/"), <<"/">>))

\* filepath.Ext: from the last dot of the final element, empty without one
Ext(p) ==
    LET last == Drop(p, LastIndex(p, <<"/">>))
    IN  IF Contains(last, <<".">>) THEN Drop(last, LastIndex(last, <<".">>) - 1) ELSE <<>>

\* filepath.Dir
Dir(p) == Clean(Take(p, LastIndex(p, <<"/">>)))

\* unicode.ToLower on one character
LowerChar(c) ==
    CASE c = "A" -> "a" [] c = "B" -> "b" [] c = "C" -> "c" [] c = "D" -> "d"
      [] c = "E" -> "e" [] c = "F" -> "f" [] c = "M" -> "m" [] OTHER -> c

\* strings.ToLower
ToLower(s) == [i \in 1..Len(s) |-> LowerChar(s[i])]

\* strings.EqualFold
EqualFold(a, b) == ToLower(a) = ToLower(b)

\* the characters of the model's paths in byte order
Ascii == <<"#", "%", ".", "/", "0", "1", "2", "3", "4", "5", "6", "7", "8", "9",
           ":", "?", "@", "A", "B", "C", "D", "E", "F", "M", "_",
           "a", "b", "c", "d", "e", "f", "g", "h", "i", "j", "k", "l", "m",
           "n", "o", "p", "q", "r", "s", "t", "u", "v", "w", "x", "y", "z",
           "{", "}">>

\* the rank of a character in byte order
Code(c) == CHOOSE i \in 1..Len(Ascii) : Ascii[i] = c

\* a < b in the byte order of Go strings
RECURSIVE StrLess(_, _)
StrLess(a, b) ==
    IF b = <<>> THEN FALSE
    ELSE IF a = <<>> THEN TRUE
    ELSE IF Head(a) = Head(b) THEN StrLess(Tail(a), Tail(b))
    ELSE Code(Head(a)) < Code(Head(b))

----------------------------------------------------------------------------
(* the filesystem seen through os.Stat and os.ReadDir *)

\* path names a directory: some file lies below it
IsDir(path) ==
    \/ path = <<".">> /\ \E f \in fs : ~HasPrefix(f, <<"/">>)
    \/ \E f \in fs : HasPrefix(f, path \o <<"/">>)

\* os.Stat(path) returns no error
Exists(path) == path \in fs \/ IsDir(path)

\* the names os.ReadDir(dir) returns
Entries(dir) ==
    IF dir = <<".">>
    THEN { CutBefore(f, <<"/">>) : f \in { g \in fs : ~HasPrefix(g, <<"/">>) } }
    ELSE { CutBefore(Drop(f, Len(dir) + 1), <<"/">>) :
             f \in { g \in fs : HasPrefix(g, dir \o <<"/">>) } }

----------------------------------------------------------------------------
(* text constants of the checker *)

MAILTO == <<"m", "a", "i", "l", "t", "o", ":">>
CONTENT == <<"c", "o", "n", "t", "e", "n", "t">>
STATIC == <<"s", "t", "a", "t", "i", "c">>
PUBLIC == <<"p", "u", "b", "l", "i", "c">>
INDEX_MD == <<"i", "n", "d", "e", "x", ".", "m", "d">>
UINDEX_MD == <<"_">> \o INDEX_MD
INDEX_HTML == <<"i", "n", "d", "e", "x", ".", "h", "t", "m", "l">>
DOT_MD == <<".", "m", "d">>
DOT_MARKDOWN == <<".", "m", "a", "r", "k", "d", "o", "w", "n">>
DOT_HTML == <<".", "h", "t", "m", "l">>
SLASH_CONTENT_SLASH == <<"/">> \o CONTENT \o <<"/">>

\* an error message built by fmt.Sprintf or taken from an error: the format
\* with its integer and string arguments
Msg(f, code, args) == [fmt |-> f, code |-> code, args |-> args]

\* the result of a validator: the status and error it writes to the link,
\* the error it returns, the probes it issued and the paths it reports
Result(status, msg, err, events) ==
    [StatusCode |-> status, ErrorMessage |-> msg, err |-> err, events |-> events]

\* one filesystem test or network probe with its outcome: whether it
\* succeeded, the status code of a response, the reason of a transport error
Event(op, target, ok, code, reason) ==
    [op |-> op, target |-> target, ok |-> ok, code |-> code, reason |-> reason]

----------------------------------------------------------------------------
(* checkMailtoLink *)

\* the outcomes of the two DNS lookups: whether net.LookupMX and
\* net.LookupHost (made only after a failed LookupMX) succeed
DNSOutcomes == { [mx |-> TRUE, host |-> FALSE],
                 [mx |-> FALSE, host |-> TRUE],
                 [mx |-> FALSE, host |-> FALSE] }

\* a DNS lookup and whether it succeeded
Lookup(op, domain, ok) == Event(op, domain, ok, 0, <<>>)

\* checkMailtoLink that accepts any address containing an "@"
checkMailtoLinkAnyAt(url, dns) ==
    LET u      == UrlParse(url)
        email  == u.Opaque
        domain == SplitSecond(email, <<"@">>)
    IN  IF ~u.ok THEN Result(0, Msg("Invalid mailto URL", 0, <<>>), FALSE, <<>>)
        ELSE IF email = <<>>
             THEN Result(0, Msg("No email address in mailto URL", 0, <<>>), FALSE, <<>>)
        ELSE IF SplitCount(email, <<"@">>) < 2
             THEN Result(0, Msg("Invalid email format", 0, <<>>), FALSE, <<>>)
        ELSE IF dns.mx
             THEN Result(200, NoError, FALSE, <<Lookup("MX", domain, TRUE)>>)
        ELSE IF dns.host
             THEN Result(200, NoError, FALSE,
                         <<Lookup("MX", domain, FALSE), Lookup("A", domain, TRUE)>>)
        ELSE Result(0, Msg("Domain not found: %s", 0, <<domain>>), FALSE,
                    <<Lookup("MX", domain, FALSE), Lookup("A", domain, FALSE)>>)

checkMailtoLink(url, dns) ==
    LET u      == UrlParse(url)
        email  == u.Opaque
        domain == SplitSecond(email, <<"@">>)
    IN  IF ~u.ok THEN Result(0, Msg("Invalid mailto URL", 0, <<>>), FALSE, <<>>)
        ELSE IF email = <<>>
             THEN Result(0, Msg("No email address in mailto URL", 0, <<>>), FALSE, <<>>)
        ELSE IF SplitCount(email, <<"@">>) # 2
             THEN Result(0, Msg("Invalid email format", 0, <<>>), FALSE, <<>>)
        ELSE IF dns.mx
             THEN Result(200, NoError, FALSE, <<Lookup("MX", domain, TRUE)>>)
        ELSE IF dns.host
             THEN Result(200, NoError, FALSE,
                         <<Lookup("MX", domain, FALSE), Lookup("A", domain, TRUE)>>)
        ELSE Result(0, Msg("Domain not found: %s", 0, <<domain>>), FALSE,
                    <<Lookup("MX", domain, FALSE), Lookup("A", domain, FALSE)>>)

----------------------------------------------------------------------------
(* checkExternalLink *)

\* the status codes a server answers with in the model
Codes == {200, 399, 400}

HEADNAME == <<"H", "e", "a", "d">>
GETNAME == <<"G", "e", "t">>
TIMEOUT == <<"t", "i", "m", "e", "o", "u", "t">>
REFUSED == <<"r", "e", "f", "u", "s", "e", "d">>

\* the outcomes of client.Head and of client.Get (made only after a failed
\* Head): a transport error with its reason, or a response with its status
HTTPOutcomes ==
    { [headOk |-> TRUE, headCode |-> c, headReason |-> <<>>,
       getOk |-> FALSE, getCode |-> 0, getReason |-> <<>>] : c \in Codes }
    \cup { [headOk |-> FALSE, headCode |-> 0, headReason |-> TIMEOUT,
            getOk |-> TRUE, getCode |-> c, getReason |-> <<>>] : c \in Codes }
    \cup { [headOk |-> FALSE, headCode |-> 0, headReason |-> TIMEOUT,
            getOk |-> FALSE, getCode |-> 0, getReason |-> r] : r \in {TIMEOUT, REFUSED} }

\* the outcome used where no request is made
NoProbe == [headOk |-> FALSE, headCode |-> 0, headReason |-> <<>>,
            getOk |-> FALSE, getCode |-> 0, getReason |-> <<>>]

\* requests with a GET also after a HEAD answered with a status >= 400
RequestsGetOnBadStatus(url, o) ==
    IF o.headOk /\ o.headCode < 400 THEN <<Event("HEAD", url, TRUE, o.headCode, <<>>)>>
    ELSE <<Event("HEAD", url, o.headOk, o.headCode, o.headReason),
           Event("GET", url, o.getOk, o.getCode, o.getReason)>>

\* the requests checkExternalLink makes: HEAD, and GET when HEAD failed
Requests(url, o) ==
    IF o.headOk THEN <<Event("HEAD", url, TRUE, o.headCode, <<>>)>>
    ELSE <<Event("HEAD", url, FALSE, 0, o.headReason),
           Event("GET", url, o.getOk, o.getCode, o.getReason)>>

\* err.Error() of the *url.Error a failed request returns
TransportError(method, url, reason) == Msg("%s %q: %s", 0, <<method, url, reason>>)

\* checkExternalLink that returns the transport error to its caller
checkExternalLinkReturnsError(url, o) ==
    LET code == IF o.headOk THEN o.headCode ELSE o.getCode
        evs  == Requests(url, o)
    IN  IF ~o.headOk /\ ~o.getOk
        THEN Result(0, TransportError(GETNAME, url, o.getReason), TRUE, evs)
        ELSE Result(code,
                    IF code >= 400 THEN Msg("HTTP %d", code, <<>>) ELSE NoError,
                    FALSE, evs)

\* checkExternalLink that attaches the error message only above 400
checkExternalLinkAbove400(url, o) ==
    LET code == IF o.headOk THEN o.headCode ELSE o.getCode
        evs  == Requests(url, o)
    IN  IF ~o.headOk /\ ~o.getOk
        THEN Result(0, TransportError(GETNAME, url, o.getReason), FALSE, evs)
        ELSE Result(code,
                    IF code > 400 THEN Msg("HTTP %d", code, <<>>) ELSE NoError,
                    FALSE, evs)

checkExternalLink(url, o) ==
    LET code == IF o.headOk THEN o.headCode ELSE o.getCode
        evs  == Requests(url, o)
    IN  IF ~o.headOk /\ ~o.getOk
        THEN Result(0, TransportError(GETNAME, url, o.getReason), FALSE, evs)
        ELSE Result(code,
                    IF code >= 400 THEN Msg("HTTP %d", code, <<>>) ELSE NoError,
                    FALSE, evs)

----------------------------------------------------------------------------
(* the internal resolvers: checkHugoFile, checkPublicFileVerbose *)

\* the Hugo site root derived from rootDir: the part before "/content/"
HugoSiteRoot(root) ==
    IF Contains(root, SLASH_CONTENT_SLASH) THEN CutBefore(root, SLASH_CONTENT_SLASH)
    ELSE root

\* a path under the root and then under the site root
Both(root, mid, last) ==
    <<Join(<<root>> \o mid \o last), Join(<<HugoSiteRoot(root)>> \o mid \o last)>>

\* the transformations without the _index.md layout
TransformationsNoSectionIndex(root, base) ==
    Both(root, <<CONTENT>>, <<base \o DOT_MD>>)
    \o Both(root, <<CONTENT>>, <<base, INDEX_MD>>)
    \o Both(root, <<>>, <<base \o DOT_MD>>)
    \o Both(root, <<>>, <<base, INDEX_MD>>)

\* the three Hugo transformations of base under content and under the roots
Transformations(root, base) ==
    Both(root, <<CONTENT>>, <<base \o DOT_MD>>)
    \o Both(root, <<CONTENT>>, <<base, INDEX_MD>>)
    \o Both(root, <<CONTENT>>, <<base, UINDEX_MD>>)
    \o Both(root, <<>>, <<base \o DOT_MD>>)
    \o Both(root, <<>>, <<base, INDEX_MD>>)
    \o Both(root, <<>>, <<base, UINDEX_MD>>)

\* candidatePaths of checkHugoFile, for the link path without its leading slash
HugoCandidates(linkPath, root) ==
    <<Join(<<root, linkPath>>)>>
    \o (IF HugoSiteRoot(root) # root THEN <<Join(<<HugoSiteRoot(root), linkPath>>)>> ELSE <<>>)
    \o Both(root, <<STATIC>>, <<linkPath>>)
    \o Both(root, <<CONTENT>>, <<linkPath>>)
    \o (IF HasSuffix(linkPath, <<"/">>)
        THEN Transformations(root, TrimSuffix(linkPath, <<"/">>)) ELSE <<>>)
    \o (IF ~HasSuffix(linkPath, <<"/">>) /\ ~Contains(Base(linkPath), <<".">>)
        THEN Transformations(root, linkPath) ELSE <<>>)

\* the candidates under public followed by the page under content
PublicCandidatesThenContent(linkPath, root) ==
    <<Join(<<HugoSiteRoot(root), PUBLIC, linkPath>>),
      Join(<<HugoSiteRoot(root), PUBLIC, linkPath, INDEX_HTML>>),
      Join(<<HugoSiteRoot(root), CONTENT, linkPath \o DOT_MD>>)>>

\* candidatePaths of checkPublicFileVerbose
PublicCandidates(linkPath, root) ==
    <<Join(<<HugoSiteRoot(root), PUBLIC, linkPath>>)>>
    \o (IF HasSuffix(linkPath, <<"/">>)
        THEN <<Join(<<HugoSiteRoot(root), PUBLIC, linkPath, INDEX_HTML>>)>> ELSE <<>>)
    \o (IF ~Contains(Base(linkPath), <<".">>)
        THEN <<Join(<<HugoSiteRoot(root), PUBLIC, linkPath, INDEX_HTML>>),
               Join(<<HugoSiteRoot(root), PUBLIC, linkPath \o <<"/">> \o INDEX_HTML>>),
               Join(<<HugoSiteRoot(root), PUBLIC, linkPath \o DOT_HTML>>)>>
        ELSE <<>>)

\* the candidates left as they were generated
DedupNone(paths, out) == paths

\* the deduplication loop: first occurrences, in order
RECURSIVE Dedup(_, _)
Dedup(paths, out) ==
    IF paths = <<>> THEN out
    ELSE IF \E i \in 1..Len(out) : out[i] = Head(paths) THEN Dedup(Tail(paths), out)
    ELSE Dedup(Tail(paths), Append(out, Head(paths)))

\* every path taken for a source document
isSourceFilePathAlways(path) == TRUE

isSourceFilePath(path) ==
    \/ ToLower(Ext(path)) = DOT_MD
    \/ ToLower(Ext(path)) = DOT_MARKDOWN
    \/ Contains(path, SLASH_CONTENT_SLASH)

\* the names in dir that equal base ignoring case
FoldMatches(dir, base) == { n \in Entries(dir) : EqualFold(n, base) }

\* findCaseInsensitiveFile: the first match in the sorted listing of the
\* parent directory, empty when the directory cannot be read or has no match
findCaseInsensitiveFile(targetPath) ==
    LET dir == Dir(targetPath)
        ms  == FoldMatches(dir, Base(targetPath))
    IN  IF ~IsDir(dir) \/ ms = {} THEN <<>>
        ELSE Join(<<dir, CHOOSE n \in ms : \A o \in ms : o = n \/ StrLess(n, o)>>)

\* the testing loop of checkHugoFile (fold = TRUE) and of
\* checkPublicFileVerbose (fold = FALSE) over the deduplicated candidates:
\* whether a candidate was found, the paths reported, the tests made
RECURSIVE TestLoop(_, _, _, _)
TestLoop(paths, fold, checked, events) ==
    IF paths = <<>> THEN [found |-> FALSE, checked |-> checked, events |-> events]
    ELSE LET path == Head(paths)
             c1   == Append(checked, path)
             e1   == Append(events, Event("stat", path, Exists(path), 0, <<>>))
         IN  IF Exists(path) THEN [found |-> TRUE, checked |-> c1, events |-> e1]
             ELSE IF fold /\ isSourceFilePath(path)
                  THEN LET e2 == Append(e1, Event("readdir", Dir(path), IsDir(Dir(path)), 0, <<>>))
                       IN  IF findCaseInsensitiveFile(path) # <<>>
                           THEN [found |-> TRUE,
                                 checked |-> Append(c1, findCaseInsensitiveFile(path)),
                                 events |-> e2]
                           ELSE TestLoop(Tail(paths), fold, c1, e2)
             ELSE TestLoop(Tail(paths), fold, c1, e1)

\* checkHugoFile testing only the link path directly under the root
checkHugoFileFirstCandidate(linkPath, root, verb) ==
    LET r == TestLoop(<<Join(<<root, TrimPrefix(linkPath, <<"/">>)>>)>>, TRUE, <<>>, <<>>)
    IN  [found |-> r.found, checkedPaths |-> IF verb THEN r.checked ELSE <<>>,
         events |-> r.events]

\* checkHugoFile: checkedPaths is collected only when verbose
checkHugoFile(linkPath, root, verb) ==
    LET r == TestLoop(Dedup(HugoCandidates(TrimPrefix(linkPath, <<"/">>), root), <<>>),
                      TRUE, <<>>, <<>>)
    IN  [found |-> r.found, checkedPaths |-> IF verb THEN r.checked ELSE <<>>,
         events |-> r.events]

\* checkPublicFileVerbose
checkPublicFileVerbose(linkPath, root, verb) ==
    LET r == TestLoop(Dedup(PublicCandidates(TrimPrefix(linkPath, <<"/">>), root), <<>>),
                      FALSE, <<>>, <<>>)
    IN  [found |-> r.found, checkedPaths |-> IF verb THEN r.checked ELSE <<>>,
         events |-> r.events]

----------------------------------------------------------------------------
(* checkInternalLink *)

\* the link path: the URL up to its first "#", then up to its first "?"
StrippedPath(url) == CutBefore(CutBefore(url, <<"#">>), <<"?">>)

\* the base URL and the link path put together as they are
FullURLConcat(base, linkPath) == base \o linkPath

\* the URL probed in remote mode
FullURL(base, linkPath) == TrimRight(base, "/") \o <<"/">> \o TrimLeft(linkPath, "/")

\* checkInternalLink without the test for an empty link path
checkInternalLinkNoEmptySkip(url, root, pub, base, verb, o) ==
    LET linkPath == StrippedPath(url)
        temp     == checkExternalLink(FullURL(base, linkPath), o)
        r        == IF pub THEN checkPublicFileVerbose(linkPath, root, verb)
                    ELSE checkHugoFile(linkPath, root, verb)
    IN  IF base # <<>>
        THEN Result(temp.StatusCode, temp.ErrorMessage, temp.err, temp.events)
        ELSE IF r.found THEN Result(200, NoError, FALSE, r.events)
        ELSE Result(404, Msg("File not found", 0, <<>>), FALSE, r.events)

\* checkInternalLink; o is the outcome of the HTTP probe, used in remote mode
checkInternalLink(url, root, pub, base, verb, o) ==
    LET linkPath == StrippedPath(url)
        temp     == checkExternalLink(FullURL(base, linkPath), o)
        r        == IF pub THEN checkPublicFileVerbose(linkPath, root, verb)
                    ELSE checkHugoFile(linkPath, root, verb)
    IN  IF linkPath = <<>> THEN Result(200, NoError, FALSE, <<>>)
        ELSE IF base # <<>>
             THEN IF temp.err THEN Result(0, NoError, TRUE, temp.events)
                  ELSE Result(temp.StatusCode, temp.ErrorMessage, FALSE, temp.events)
        ELSE IF r.found THEN Result(200, NoError, FALSE, r.events)
        ELSE Result(404,
                    IF verb /\ Len(r.checkedPaths) > 0
                    THEN Msg("File not found. Checked paths: %s", 0, r.checkedPaths)
                    ELSE Msg("File not found", 0, <<>>),
                    FALSE, r.events)

----------------------------------------------------------------------------
(* CountBrokenLinks *)

\* the loop over the links of one page
RECURSIVE CountPage(_)
CountPage(links) ==
    IF links = <<>> THEN 0
    ELSE (IF Head(links).Ignored THEN 0
          ELSE IF \/ Head(links).StatusCode >= 400
                  \/ (Head(links).StatusCode = 0 /\ Head(links).ErrorMessage # NoError)
               THEN 1
          ELSE 0)
         + CountPage(Tail(links))

\* the loop of the earlier CountBrokenLinks, which did not look at Ignored
RECURSIVE CountPageNoIgnore(_)
CountPageNoIgnore(links) ==
    IF links = <<>> THEN 0
    ELSE (IF \/ Head(links).StatusCode >= 400
             \/ (Head(links).StatusCode = 0 /\ Head(links).ErrorMessage # NoError)
          THEN 1
          ELSE 0)
         + CountPageNoIgnore(Tail(links))

\* CountBrokenLinks without the test of Ignored
RECURSIVE CountBrokenLinksNoIgnore(_)
CountBrokenLinksNoIgnore(fl) ==
    IF fl = <<>> THEN 0
    ELSE CountPageNoIgnore(Head(fl).Links) + CountBrokenLinksNoIgnore(Tail(fl))

RECURSIVE CountBrokenLinks(_)
CountBrokenLinks(fl) ==
    IF fl = <<>> THEN 0 ELSE CountPage(Head(fl).Links) + CountBrokenLinks(Tail(fl))

----------------------------------------------------------------------------
(* CheckLinks: one action per branch of the loop body, each a whole iteration *)

\* the first page at or after f that has a link, Len(fl) + 1 when there is none
FirstPageFrom(fl, f) ==
    IF \E g \in f..Len(fl) : Len(fl[g].Links) > 0
    THEN MinOf({ g \in f..Len(fl) : Len(fl[g].Links) > 0 })
    ELSE Len(fl) + 1

\* the loop is at a link
AtLink == pc = "check" /\ fi <= Len(files)

\* the link the loop is at
Cur == files[fi].Links[li]

\* the template test with the opening delimiter only
HasTemplateSyntaxOpenOnly(url) == Contains(url, <<"{", "{">>)

\* strings.Contains(link.URL, "{{") || strings.Contains(link.URL, "}}")
HasTemplateSyntax(url) == Contains(url, <<"{", "{">>) \/ Contains(url, <<"}", "}">>)

\* the probes of one iteration, tagged with the position of the link
Tagged(events) ==
    [i \in 1..Len(events) |->
        [op |-> events[i].op, target |-> events[i].target, ok |-> events[i].ok,
         code |-> events[i].code, reason |-> events[i].reason, f |-> fi, l |-> li]]

\* the loop moves to the next link
Advance ==
    /\ IF li < Len(files[fi].Links)
       THEN fi' = fi /\ li' = li + 1
       ELSE fi' = FirstPageFrom(files, fi + 1) /\ li' = 1
    /\ UNCHANGED <<pc, ret>>

\* an iteration that writes the status and the error message but no time
IterateNoTime(res) ==
    /\ files' = [files EXCEPT ![fi].Links[li] =
                    [@ EXCEPT !.StatusCode = res.StatusCode,
                              !.ErrorMessage = res.ErrorMessage]]
    /\ now' = now
    /\ log' = log \o Tagged(res.events)
    /\ Advance

\* an iteration that ends in "continue" or at the bottom of the loop body:
\* the link gets the status, the error message and time.Now()
Iterate(res) ==
    /\ files' = [files EXCEPT ![fi].Links[li] =
                    [@ EXCEPT !.StatusCode = res.StatusCode,
                              !.ErrorMessage = res.ErrorMessage,
                              !.LastChecked = now]]
    /\ now' = now + 1
    /\ log' = log \o Tagged(res.events)
    /\ Advance

\* an iteration in which a validator returns an error: CheckLinks returns it
Abort(res) ==
    /\ log' = log \o Tagged(res.events)
    /\ ret' = "error"
    /\ pc' = "done"
    /\ UNCHANGED <<files, now, fi, li>>

\* the end of an iteration that called a validator
Validated(res) == IF res.err THEN Abort(res) ELSE Iterate(res)

Frame == UNCHANGED <<patterns, noReport, extensions, parsed, exitCode,
                     rootDir, checkExternal, checkPublic, baseURL, verbose, fs,
                     brokenCount, made>>

\* an ignored link that is passed over without writing its status
CheckIgnoredKeepStatus ==
    /\ AtLink
    /\ Cur.Ignored
    /\ Iterate(Result(Cur.StatusCode, Cur.ErrorMessage, FALSE, <<>>))
    /\ Frame

\* an ignored link that is given the status of a link not found
CheckIgnoredAsNotFound ==
    /\ AtLink
    /\ Cur.Ignored
    /\ Iterate(Result(404, Msg("File not found", 0, <<>>), FALSE, <<>>))
    /\ Frame

\* lines 37-43: an ignored link
CheckIgnored ==
    /\ AtLink
    /\ Cur.Ignored
    /\ Iterate(Result(200, NoError, FALSE, <<>>))
    /\ Frame

\* lines 45-51: a link with Hugo template syntax
CheckTemplate ==
    /\ AtLink
    /\ ~Cur.Ignored
    /\ HasTemplateSyntax(Cur.URL)
    /\ Iterate(Result(200, NoError, FALSE, <<>>))
    /\ Frame

\* lines 55-59: a mailto link, external checking enabled
CheckMailto ==
    /\ AtLink
    /\ ~Cur.Ignored
    /\ ~HasTemplateSyntax(Cur.URL)
    /\ Cur.Type = LinkTypeExternal
    /\ checkExternal
    /\ HasPrefix(Cur.URL, MAILTO)
    /\ \E d \in DNSOutcomes : Validated(checkMailtoLink(Cur.URL, d))
    /\ Frame

\* any other external link, probed whether or not external checking is enabled
CheckExternalAlways ==
    /\ AtLink
    /\ ~Cur.Ignored
    /\ ~HasTemplateSyntax(Cur.URL)
    /\ Cur.Type = LinkTypeExternal
    /\ ~HasPrefix(Cur.URL, MAILTO)
    /\ \E o \in HTTPOutcomes : Validated(checkExternalLink(Cur.URL, o))
    /\ Frame

\* lines 60-65: any other external link, external checking enabled
CheckExternal ==
    /\ AtLink
    /\ ~Cur.Ignored
    /\ ~HasTemplateSyntax(Cur.URL)
    /\ Cur.Type = LinkTypeExternal
    /\ checkExternal
    /\ ~HasPrefix(Cur.URL, MAILTO)
    /\ \E o \in HTTPOutcomes : Validated(checkExternalLink(Cur.URL, o))
    /\ Frame

\* an external link, external checking disabled, marked the way the earlier
\* CheckLinks marked it
SkipExternalMarkDisabled ==
    /\ AtLink
    /\ ~Cur.Ignored
    /\ ~HasTemplateSyntax(Cur.URL)
    /\ Cur.Type = LinkTypeExternal
    /\ ~checkExternal
    /\ Iterate(Result(0, Msg("External link checking disabled", 0, <<>>), FALSE, <<>>))
    /\ Frame

\* an external link that is passed over with the sentinel state (0, "")
SkipExternalSentinel ==
    /\ AtLink
    /\ ~Cur.Ignored
    /\ ~HasTemplateSyntax(Cur.URL)
    /\ Cur.Type = LinkTypeExternal
    /\ ~checkExternal
    /\ Iterate(Result(0, NoError, FALSE, <<>>))
    /\ Frame

\* lines 66-70: an external link, external checking disabled
SkipExternal ==
    /\ AtLink
    /\ ~Cur.Ignored
    /\ ~HasTemplateSyntax(Cur.URL)
    /\ Cur.Type = LinkTypeExternal
    /\ ~checkExternal
    /\ Iterate(Result(200, NoError, FALSE, <<>>))
    /\ Frame

\* an internal link resolved against the directory of the page it is on
CheckInternalFromPage ==
    /\ AtLink
    /\ ~Cur.Ignored
    /\ ~HasTemplateSyntax(Cur.URL)
    /\ Cur.Type # LinkTypeExternal
    /\ \E o \in (IF StrippedPath(Cur.URL) # <<>> /\ baseURL # <<>>
                 THEN HTTPOutcomes ELSE {NoProbe}) :
          Validated(checkInternalLink(Cur.URL, Dir(files[fi].Path), checkPublic, baseURL,
                                      verbose, o))
    /\ Frame

\* lines 71-76: an internal link
CheckInternal ==
    /\ AtLink
    /\ ~Cur.Ignored
    /\ ~HasTemplateSyntax(Cur.URL)
    /\ Cur.Type # LinkTypeExternal
    /\ \E o \in (IF StrippedPath(Cur.URL) # <<>> /\ baseURL # <<>>
                 THEN HTTPOutcomes ELSE {NoProbe}) :
          Validated(checkInternalLink(Cur.URL, rootDir, checkPublic, baseURL, verbose, o))
    /\ Frame

\* line 82: the loops are over and CheckLinks returns nil
CheckLinksReturn ==
    /\ pc = "check"
    /\ fi > Len(files)
    /\ ret' = "nil"
    /\ pc' = "count"
    /\ UNCHANGED <<files, now, fi, li, log>>
    /\ Frame

\* the caller counts the broken links after a pass without error
CountStep ==
    /\ pc = "count"
    /\ brokenCount' = CountBrokenLinks(files)
    /\ pc' = "done"
    /\ UNCHANGED <<files, rootDir, checkExternal, checkPublic, baseURL, verbose, fs,
                   fi, li, now, ret, log, made, patterns, noReport, extensions, parsed, exitCode>>

\* what a resolver returns: found and checkedPaths
ReturnLine(found, checkedPaths) ==
    [op |-> "return", target |-> <<>>, ok |-> found, code |-> 0, reason |-> checkedPaths,
     f |-> 1, l |-> 1]

\* checker.go:203-209: the call of the resolver of the mode on the stripped
\* path of the link, as checkInternalLink makes it
ResolverCall ==
    /\ pc = "resolve"
    /\ LET linkPath == StrippedPath(files[1].Links[1].URL)
           r == IF checkPublic THEN checkPublicFileVerbose(linkPath, rootDir, verbose)
                ELSE checkHugoFile(linkPath, rootDir, verbose)
       IN  log' = Tagged(r.events) \o <<ReturnLine(r.found, r.checkedPaths)>>
    /\ pc' = "done"
    /\ UNCHANGED <<files, rootDir, checkExternal, checkPublic, baseURL, verbose, fs, fi, li,
                   now, ret, brokenCount, made, patterns, noReport, extensions, parsed,
                   exitCode>>

----------------------------------------------------------------------------
(* main: applyIgnorePatterns.  A pattern is a regular expression made of    *)
(* literal characters and ".", with an optional "^" in front and an        *)
(* optional "$" at the end.                                                *)

\* the pattern without its anchors
PatternBody(pat) == TrimSuffix(TrimPrefix(pat, <<"^">>), <<"$">>)

\* the body matches s from position i on: "." stands for any character
MatchesAt(body, s, i) ==
    /\ i + Len(body) - 1 <= Len(s)
    /\ \A k \in 1..Len(body) : body[k] = "." \/ body[k] = s[i + k - 1]

\* a match that has to cover the whole string
MatchWhole(pat, s) ==
    Len(PatternBody(pat)) = Len(s) /\ MatchesAt(PatternBody(pat), s, 1)

\* regexp.MatchString: the pattern matches somewhere in s, at the start
\* only under "^", up to the end only under "$"
MatchString(pat, s) ==
    \E i \in 1..(Len(s) + 1) :
        /\ MatchesAt(PatternBody(pat), s, i)
        /\ HasPrefix(pat, <<"^">>) => i = 1
        /\ HasSuffix(pat, <<"$">>) => i + Len(PatternBody(pat)) - 1 = Len(s)

\* the index of the first pattern that matches the URL, 0 when none does
FirstMatch(pats, url) ==
    IF \E k \in 1..Len(pats) : MatchString(pats[k], url)
    THEN MinOf({ k \in 1..Len(pats) : MatchString(pats[k], url) })
    ELSE 0

\* the DEBUG line written for the link l of page f, naming the pattern
DebugLine(f, l, url, pats) ==
    [op |-> "ignore", target |-> url, ok |-> TRUE, code |-> FirstMatch(pats, url),
     reason |-> pats[FirstMatch(pats, url)], f |-> f, l |-> l]

\* a filter that writes to Ignored whether a pattern matches
applyIgnorePatternsAssign(file, pats, f) ==
    [Links |-> [l \in 1..Len(file.Links) |->
                   [file.Links[l] EXCEPT !.Ignored = (FirstMatch(pats, file.Links[l].URL) # 0)]],
     debug |-> <<>>]

\* applyIgnorePatterns on page f: the links with Ignored set where a pattern
\* matches, and the DEBUG lines written, one for each such link
applyIgnorePatterns(file, pats, f) ==
    [Links |-> [l \in 1..Len(file.Links) |->
                   IF FirstMatch(pats, file.Links[l].URL) # 0
                   THEN [file.Links[l] EXCEPT !.Ignored = TRUE]
                   ELSE file.Links[l]],
     debug |-> LET hit == { l \in 1..Len(file.Links) : FirstMatch(pats, file.Links[l].URL) # 0 }
                   RECURSIVE Lines(_)
                   Lines(l) == IF l > Len(file.Links) THEN <<>>
                               ELSE (IF l \in hit
                                     THEN <<DebugLine(f, l, file.Links[l].URL, pats)>>
                                     ELSE <<>>) \o Lines(l + 1)
               IN  Lines(1)]

----------------------------------------------------------------------------
(* main: the loop over fileList, the call of CheckLinks, the exit code *)

\* the file main's loop is at
NextFile == parsed + 1

\* the message main writes when ParseLinksFromFile returns an error
ParseErrorLine(f, n) ==
    [op |-> "parse error", target |-> <<>>, ok |-> FALSE, code |-> n, reason |-> <<>>,
     f |-> f, l |-> 0]

\* main.go:91-98: ParseLinksFromFile returns an error (the file cannot be
\* opened, or the scanner stops after n lines); main reports it and
\* continues with the next file, the links read so far staying in the File
ParseFails ==
    /\ pc = "parse"
    /\ parsed < Len(files)
    /\ \E opened \in BOOLEAN, n \in 0..Len(files[NextFile].Text) :
          LET r == ParseLinksFromFile(files[NextFile], opened, n)
          IN  /\ r.err
              /\ files' = [files EXCEPT ![NextFile].Links = r.Links]
              /\ log' = Append(log, ParseErrorLine(NextFile, IF opened THEN n ELSE 0))
    /\ parsed' = parsed + 1
    /\ UNCHANGED <<rootDir, checkExternal, checkPublic, baseURL, verbose, fs, pc, fi, li,
                   now, ret, brokenCount, made, patterns, noReport, extensions, exitCode>>

\* main.go:91-110: ParseLinksFromFile returns nil and applyIgnorePatterns
\* runs on the File
ParseAndFilter ==
    /\ pc = "parse"
    /\ parsed < Len(files)
    /\ LET r == ParseLinksFromFile(files[NextFile], TRUE, Len(files[NextFile].Text))
           g == applyIgnorePatterns([Links |-> r.Links], patterns, NextFile)
       IN  /\ files' = [files EXCEPT ![NextFile].Links = g.Links]
           /\ log' = log \o g.debug
    /\ parsed' = parsed + 1
    /\ UNCHANGED <<rootDir, checkExternal, checkPublic, baseURL, verbose, fs, pc, fi, li,
                   now, ret, brokenCount, made, patterns, noReport, extensions, exitCode>>

\* main.go:113: the loop is over and main calls CheckLinks
CallCheckLinks ==
    /\ pc = "parse"
    /\ parsed = Len(files)
    /\ pc' = "check"
    /\ fi' = FirstPageFrom(files, 1)
    /\ li' = 1
    /\ UNCHANGED <<files, rootDir, checkExternal, checkPublic, baseURL, verbose, fs,
                   now, ret, log, brokenCount, made, patterns, noReport, extensions, parsed, exitCode>>

\* the exit status a process ends with: the low eight bits of the code
ExitStatus(code) == code % 256

\* the exit code without the cap at 255
ExitCodeUncapped(count, noRep, reportOK) ==
    IF noRep THEN ExitStatus(count)
    ELSE IF ~reportOK THEN 1
    ELSE ExitStatus(count)

\* main.go:122-149: the exit code for a broken-link count; reportOK is
\* whether GenerateReport returns nil (not called under -no-report)
ExitCode(count, noRep, reportOK) ==
    IF noRep THEN ExitStatus(IF count > 255 THEN 255 ELSE count)
    ELSE IF ~reportOK THEN 1
    ELSE IF count > 0 THEN ExitStatus(IF count > 255 THEN 255 ELSE count)
    ELSE 0

\* the call of GenerateReport and whether it returned nil
ReportLine(reportOK) ==
    [op |-> "report", target |-> <<>>, ok |-> reportOK, code |-> 0, reason |-> <<>>,
     f |-> 0, l |-> 0]

\* main.go:122-149: main ends after the count
Exit ==
    /\ pc = "done"
    /\ ret = "nil"
    /\ brokenCount >= 0
    /\ exitCode = -1
    /\ \E reportOK \in (IF noReport THEN {TRUE} ELSE BOOLEAN) :
          /\ exitCode' = ExitCode(brokenCount, noReport, reportOK)
          /\ log' = IF noReport THEN log ELSE Append(log, ReportLine(reportOK))
    /\ UNCHANGED <<files, rootDir, checkExternal, checkPublic, baseURL, verbose, fs, pc,
                   fi, li, now, ret, made, brokenCount, patterns, noReport, extensions, parsed>>

----------------------------------------------------------------------------
(* reporter: calculateSummary and generateTextReport.  The report is the   *)
(* sequence of the lines written: the "Broken links" line of the summary,  *)
(* a line for every file shown, and a line for every link listed as broken *)

DOT_HTM == <<".", "h", "t", "m">>

\* reporter.go:251-254
isMarkdownOrHTML(filePath) ==
    LET ext == ToLower(Ext(filePath))
    IN  ext = DOT_MD \/ ext = DOT_MARKDOWN \/ ext = DOT_HTML \/ ext = DOT_HTM

\* the condition under which the reporter takes a link as broken
ReportedBroken(link) ==
    \/ link.StatusCode >= 400
    \/ (link.StatusCode = 0 /\ link.ErrorMessage # NoError)

\* the number of links of a page that satisfy the reporter's condition
RECURSIVE SummaryPage(_)
SummaryPage(links) ==
    IF links = <<>> THEN 0
    ELSE (IF ReportedBroken(Head(links)) THEN 1 ELSE 0) + SummaryPage(Tail(links))

\* summary.BrokenLinks of calculateSummary
RECURSIVE SummaryBrokenLinks(_)
SummaryBrokenLinks(fl) ==
    IF fl = <<>> THEN 0 ELSE SummaryPage(Head(fl).Links) + SummaryBrokenLinks(Tail(fl))

\* one line of the report
ReportEntry(op, target, code, f, l) ==
    [op |-> op, target |-> target, ok |-> TRUE, code |-> code, reason |-> <<>>,
     f |-> f, l |-> l]

\* the lines for the links of file f from link l on that are listed as broken
RECURSIVE BrokenLines(_, _, _)
BrokenLines(links, f, l) ==
    IF l > Len(links) THEN <<>>
    ELSE (IF ReportedBroken(links[l])
          THEN <<ReportEntry("broken", links[l].URL, links[l].StatusCode, f, l)>>
          ELSE <<>>)
         \o BrokenLines(links, f, l + 1)

\* the lines for the files from file f on
RECURSIVE FileLines(_, _)
FileLines(fl, f) ==
    IF f > Len(fl) THEN <<>>
    ELSE (IF ~isMarkdownOrHTML(fl[f].Path) THEN <<>>
          ELSE LET brokenLinks == BrokenLines(fl[f].Links, f, 1)
               IN  IF Len(brokenLinks) = 0 THEN <<>>
                   ELSE <<ReportEntry("file", fl[f].Path, Len(brokenLinks), f, 0)>>
                        \o brokenLinks)
         \o FileLines(fl, f + 1)

\* reporter.go:75-131
generateTextReport(fl) ==
    <<ReportEntry("summary", <<>>, SummaryBrokenLinks(fl), 0, 0)>> \o FileLines(fl, 1)

\* GenerateReport called with the text format after the count
TextReportCall ==
    /\ pc = "done"
    /\ log' = log \o generateTextReport(files)
    /\ pc' = "reported"
    /\ UNCHANGED <<files, rootDir, checkExternal, checkPublic, baseURL, verbose, fs,
                   fi, li, now, ret, made, brokenCount, patterns, noReport, extensions, parsed,
                   exitCode>>

----------------------------------------------------------------------------
(* scanner: EnumerateFiles and GetFileList *)

\* the working directory of the process
CWD == <<"/", "w">>

\* filepath.Abs
Abs(path) == IF HasPrefix(path, <<"/">>) THEN Clean(path) ELSE Join(<<CWD, path>>)

\* an extension taken as it is given
NormalizeExtNot(ext) == ext

\* file_scanner.go:16-23: an extension gets a dot in front unless it has one
NormalizeExt(ext) == IF HasPrefix(ext, <<".">>) THEN ext ELSE <<".">> \o ext

\* file_scanner.go:36-42
hasValidExtension(path, exts) ==
    \E i \in 1..Len(exts) : HasSuffix(ToLower(path), ToLower(NormalizeExt(exts[i])))

\* names in the lexical order in which filepath.Walk reads a directory
RECURSIVE SortNames(_)
SortNames(S) ==
    IF S = {} THEN <<>>
    ELSE LET least == CHOOSE x \in S : \A y \in S \ {x} : StrLess(x, y)
         IN  <<least>> \o SortNames(S \ {least})

\* filepath.Walk below path: the paths the callback is called with, in
\* order, each with whether it is a directory
RECURSIVE walk(_)
RECURSIVE walkNames(_, _)
walk(path) ==
    IF ~IsDir(Clean(path)) THEN <<[path |-> path, dir |-> FALSE]>>
    ELSE <<[path |-> path, dir |-> TRUE]>>
         \o walkNames(path, SortNames(Entries(Clean(path))))

walkNames(path, names) ==
    IF names = <<>> THEN <<>>
    ELSE walk(Join(<<path, Head(names)>>)) \o walkNames(path, Tail(names))

\* file_scanner.go:25-76: the callback over the paths visited; found is the
\* map built so far, as the set of its File values
RECURSIVE Collect(_, _, _)
Collect(visits, exts, found) ==
    IF visits = <<>> THEN found
    ELSE LET path == Head(visits).path
             canonicalPath == Clean(Abs(path))
         IN  IF Head(visits).dir THEN Collect(Tail(visits), exts, found)
             ELSE IF ~hasValidExtension(path, exts) THEN Collect(Tail(visits), exts, found)
             ELSE IF HasPrefix(Base(path), <<".">>) THEN Collect(Tail(visits), exts, found)
             ELSE IF \E x \in found : x.CanonicalPath = canonicalPath
                  THEN Collect(Tail(visits), exts, found)
             ELSE Collect(Tail(visits), exts,
                          found \cup {[Path |-> path, CanonicalPath |-> canonicalPath,
                                       Links |-> <<>>]})

\* file_scanner.go:12-85: the Files of the map returned, and whether an
\* error is returned, which is when the root cannot be read
EnumerateFiles(root, exts) ==
    IF ~Exists(Clean(root)) THEN [files |-> {}, err |-> TRUE]
    ELSE [files |-> Collect(walk(root), exts, {}), err |-> FALSE]

\* file_scanner.go:88-94: the values of the map in the order the iteration
\* over the map yields, which is any order
GetFileList(fileMap) ==
    { q \in [1..Cardinality(fileMap) -> fileMap] :
        \A i, j \in 1..Cardinality(fileMap) : i # j => q[i] # q[j] }

\* main.go:70-82 for one path to scan: EnumerateFiles and GetFileList
EnumerateCall ==
    /\ pc = "enumerate"
    /\ LET r == EnumerateFiles(rootDir, extensions)
       IN  /\ ret' = IF r.err THEN "error" ELSE "nil"
           /\ files' \in GetFileList(r.files)
    /\ pc' = "done"
    /\ UNCHANGED <<rootDir, checkExternal, checkPublic, baseURL, verbose, fs, fi, li,
                   now, log, brokenCount, made, patterns, noReport, extensions, parsed,
                   exitCode>>

----------------------------------------------------------------------------
(* inputs *)

HTTP_X == <<"h", "t", "t", "p", ":", "/", "/", "h", "/", "x">>
HTTP_TMPL == <<"h", "t", "t", "p", ":", "/", "/", "h", "/", "}", "}">>
MAIL_OK == MAILTO \o <<"a", "@", "b">>
MAIL_QUERY == MAILTO \o <<"a", "@", "b", "?", "s">>
MAIL_NOAT == MAILTO \o <<"a">>
MAIL_TWOAT == MAILTO \o <<"a", "@", "b", "@", "c">>
MAIL_EMPTY == MAILTO
MAIL_SLASH == MAILTO \o <<"/", "a", "@", "b">>
MAIL_UNPARSABLE == MAILTO \o <<"/", "%">>
MAIL_TMPL == MAILTO \o <<"{", "{">>
FRAGMENT == <<"#", "f">>
QUERY_ONLY == <<"?", "q">>
PATH_A_DIR == <<"/", "a", "/">>
PATH_A == <<"/", "a">>
PATH_M == <<"/", "m">>
PATH_M_FRAG == <<"/", "m", "#", "f">>
PATH_TMPL == <<"/", "{", "{">>
PATH_UP == <<".", ".", "/", "x", ".", "m", "d">>
EMPTY_URL == <<>>

\* the URLs of the links checked one at a time
LinkURLs == {HTTP_X, HTTP_TMPL, MAIL_OK, MAIL_QUERY, MAIL_NOAT, MAIL_TWOAT, MAIL_EMPTY,
             MAIL_SLASH, MAIL_UNPARSABLE, MAIL_TMPL, FRAGMENT, QUERY_ONLY,
             PATH_A_DIR, PATH_A, PATH_M, PATH_M_FRAG, PATH_TMPL, PATH_UP, EMPTY_URL}

\* the Link values a caller of the exported CheckLinks can pass: any URL with
\* either type and either value of Ignored
AnyLinks ==
    { MkLink(u, t, g) : u \in LinkURLs, t \in {LinkTypeInternal, LinkTypeExternal},
                        g \in BOOLEAN }

\* the links of the pages checked in a batch, as the scanner builds them, some
\* marked by the ignore filter
BatchLinks ==
    { NewLink(u) : u \in {HTTP_X, MAIL_NOAT, PATH_M, PATH_TMPL} }
    \cup { [NewLink(PATH_M) EXCEPT !.Ignored = TRUE] }

\* all sequences of at most n elements of S
RECURSIVE SeqsUpTo(_, _)
SeqsUpTo(S, n) ==
    IF n = 0 THEN {<<>>}
    ELSE SeqsUpTo(S, n - 1)
         \cup { Append(q, x) : q \in { r \in SeqsUpTo(S, n - 1) : Len(r) = n - 1 }, x \in S }

\* a page with the given links
Page(links) == [Links |-> links]

\* the number of links in a list of pages
RECURSIVE TotalLinks(_)
TotalLinks(fl) == IF fl = <<>> THEN 0 ELSE Len(Head(fl).Links) + TotalLinks(Tail(fl))

\* all lists of no, one or two pages over the links S with at most n links in all
PageLists(S, n) ==
    {<<>>}
    \cup { <<Page(q)>> : q \in SeqsUpTo(S, n) }
    \cup UNION { { <<Page(q), Page(r)>> : r \in SeqsUpTo(S, n - Len(q)) } :
                  q \in SeqsUpTo(S, n) }

ROOT_S == <<"s">>
ROOT_IN_CONTENT == <<"s">> \o SLASH_CONTENT_SLASH \o <<"b">>
ROOT_CONTENT == <<"s", "/">> \o CONTENT
BASE_URL == <<"h", "t", "t", "p", ":", "/", "/", "b", "/">>

\* the files of a small site: a page, its built output, a page whose name is
\* in upper case, and a file outside the site
SiteFiles ==
    { <<"s", "/">> \o CONTENT \o <<"/", "a", ".", "m", "d">>,
      <<"s", "/">> \o PUBLIC \o <<"/", "a", "/">> \o INDEX_HTML,
      <<"s", "/">> \o CONTENT \o <<"/", "b", "/", "M", ".", "m", "d">>,
      <<"x", ".", "m", "d">> }

----------------------------------------------------------------------------
(* specifications *)

\* CheckLinks is called on one page with one arbitrary link, under either
\* root and with or without the site's files
InitOneLink ==
    /\ files \in { <<Page(<<l>>)>> : l \in AnyLinks }
    /\ rootDir \in {ROOT_S, ROOT_IN_CONTENT}
    /\ fs \in {{}, SiteFiles}
    /\ checkExternal \in BOOLEAN
    /\ checkPublic \in BOOLEAN
    /\ baseURL \in {<<>>, BASE_URL}
    /\ verbose \in BOOLEAN

\* CheckLinks is called on a list of pages built by the scanner, in local
\* source-tree mode or in remote mode, with or without external checking
InitBatch ==
    /\ files \in PageLists(BatchLinks, MaxLinks)
    /\ rootDir = ROOT_S
    /\ fs = SiteFiles
    /\ checkExternal \in BOOLEAN
    /\ checkPublic = FALSE
    /\ baseURL \in {<<>>, BASE_URL}
    /\ verbose = FALSE

Init ==
    /\ InitOneLink \/ InitBatch
    /\ pc = "check"
    /\ fi = FirstPageFrom(files, 1)
    /\ li = 1
    /\ now = 1
    /\ ret = "none"
    /\ log = <<>>
    /\ brokenCount = -1
    /\ made = <<>>
    /\ MainIdle

Next ==
    \/ CheckIgnored
    \/ CheckTemplate
    \/ CheckMailto
    \/ CheckExternal
    \/ SkipExternal
    \/ CheckInternal
    \/ CheckLinksReturn
    \/ CountStep

Spec == Init /\ [][Next]_vars

----------------------------------------------------------------------------
(* NewLink called on its own, as TestLinkTypeDetection does *)

\* the characters the generated URLs are made of
UrlChars == {"a", "1", ":", "/", "#", "?", "@", "%", ".", "{"}

\* the generated URLs: nothing, "mailto:" or "http:", then at most
\* MaxTailLen characters
NewLinkURLs ==
    { pre \o tail : pre \in {<<>>, MAILTO, <<"h", "t", "t", "p", ":">>},
                    tail \in SeqsUpTo(UrlChars, MaxTailLen) }

\* the variables a single function call does not use
IdleCheck ==
    /\ rootDir = ROOT_S
    /\ checkExternal = FALSE
    /\ checkPublic = FALSE
    /\ baseURL = <<>>
    /\ verbose = FALSE
    /\ fs = {}
    /\ fi = 1
    /\ li = 1
    /\ now = 1
    /\ ret = "none"
    /\ log = <<>>
    /\ brokenCount = -1
    /\ MainIdle

InitNewLink ==
    /\ files = <<>>
    /\ pc = "call"
    /\ made = <<>>
    /\ IdleCheck

\* a call NewLink(u)
NewLinkCall ==
    /\ pc = "call"
    /\ \E u \in NewLinkURLs : made' = <<NewLink(u)>>
    /\ pc' = "done"
    /\ UNCHANGED <<files, rootDir, checkExternal, checkPublic, baseURL, verbose, fs,
                   fi, li, now, ret, log, brokenCount, patterns, noReport, extensions, parsed, exitCode>>

NextNewLink == NewLinkCall

SpecNewLink == InitNewLink /\ [][NextNewLink]_vars

----------------------------------------------------------------------------
(* CountBrokenLinks called on pages with arbitrary link fields *)

FILE_NOT_FOUND == Msg("File not found", 0, <<>>)

\* links in every combination of the fields CountBrokenLinks reads
CountLinks ==
    { [MkLink(PATH_M, LinkTypeInternal, g) EXCEPT !.StatusCode = c, !.ErrorMessage = m] :
        g \in BOOLEAN, c \in {0, 399, 400}, m \in {NoError, FILE_NOT_FOUND} }

InitCount ==
    /\ files \in PageLists(CountLinks, MaxCountLinks)
    /\ pc = "count"
    /\ made = <<>>
    /\ IdleCheck

NextCount == CountStep

SpecCount == InitCount /\ [][NextCount]_vars

----------------------------------------------------------------------------
(* CheckLinks called on one internal link in the two local modes, over      *)
(* generated link paths and generated filesystems                          *)

\* the longest generated link path
MaxPathLen == 3

\* the characters the generated link paths are made of
PathChars == {"a", "/", "."}

PATH_MISSING == <<"/", "a", "a", "/">>

\* the link URLs: the generated paths and a path of two letters
ResolveURLs == SeqsUpTo(PathChars, MaxPathLen) \cup {PATH_MISSING}

ABOUT_MD == <<"s", "/">> \o CONTENT \o <<"/", "a", ".", "m", "d">>

\* the files the filesystems are made of: pages under content in the three
\* Hugo layouts, pages whose names differ in case from the links, static and
\* built files, files directly under the root
ResolveFiles ==
    { ABOUT_MD,
      <<"s", "/">> \o CONTENT \o <<"/", "A", ".", "m", "d">>,
      <<"s", "/">> \o CONTENT \o <<"/", "a", "/">> \o INDEX_MD,
      <<"s", "/">> \o CONTENT \o <<"/", "a", "/">> \o UINDEX_MD,
      <<"s", "/">> \o CONTENT \o <<"/", "b", "/", "A", ".", "m", "d">>,
      <<"s", "/">> \o STATIC \o <<"/", "a", ".", "a">>,
      <<"s", "/", "a", ".", "M", "D">>,
      <<"s", "/", "A">>,
      <<"s", "/">> \o PUBLIC \o <<"/", "a", "/">> \o INDEX_HTML,
      <<"s", "/">> \o PUBLIC \o <<"/", "a">> \o DOT_HTML,
      <<"s", "/">> \o PUBLIC \o <<"/", "a", ".", "a">>,
      <<"s", "/">> \o PUBLIC \o <<"/", "A">> }

\* the filesystems: no file, each file alone, and the small site
ResolveSites == {{}} \cup { {f} : f \in ResolveFiles } \cup {SiteFiles}

InitResolve ==
    /\ files \in { <<Page(<<NewLink(u)>>)>> : u \in ResolveURLs }
    /\ rootDir \in {ROOT_S, ROOT_IN_CONTENT}
    /\ fs \in ResolveSites
    /\ checkExternal = FALSE
    /\ checkPublic \in BOOLEAN
    /\ baseURL = <<>>
    /\ verbose = FALSE
    /\ pc = "check"
    /\ fi = 1
    /\ li = 1
    /\ now = 1
    /\ ret = "none"
    /\ log = <<>>
    /\ brokenCount = -1
    /\ made = <<>>
    /\ MainIdle

NextResolve == CheckInternal \/ CheckLinksReturn

SpecResolve == InitResolve /\ [][NextResolve]_vars

----------------------------------------------------------------------------
(* ParseLinksFromFile called on one File, once or again on the same File *)

\* the most link notations in a text
MaxNotations == 3

\* the most ParseLinksFromFile calls on the File
MaxParseCalls == 2

\* [t](/a), [t](/a "t"), [t](#), <http://h/x>, <a href="/b">
Notations ==
    { [regex |-> 1, capture |-> PATH_A],
      [regex |-> 1, capture |-> PATH_A \o <<" ", "\"", "t", "\"">>],
      [regex |-> 1, capture |-> <<"#">>],
      [regex |-> 2, capture |-> HTTP_X],
      [regex |-> 4, capture |-> <<"/", "b">>] }

\* the texts of no, one or two lines with at most n notations in all
Texts(n) ==
    {<<>>}
    \cup { <<q>> : q \in SeqsUpTo(Notations, n) }
    \cup UNION { { <<q, r>> : r \in SeqsUpTo(Notations, n - Len(q)) } :
                  q \in SeqsUpTo(Notations, n) }

\* a File with its text and no links yet
NewFile(text) == [Text |-> text, Links |-> <<>>]

InitParse ==
    /\ files \in { <<NewFile(x)>> : x \in Texts(MaxNotations) }
    /\ pc = "parse"
    /\ made = <<>>
    /\ IdleCheck

\* a ParseLinksFromFile call on the File: the file cannot be opened, or the
\* scanner delivers n of its lines
ParseCall ==
    /\ pc = "parse"
    /\ parsed < MaxParseCalls
    /\ \E opened \in BOOLEAN, n \in 0..Len(files[1].Text) :
          LET r == ParseLinksFromFile(files[1], opened, n)
          IN  /\ files' = [files EXCEPT ![1].Links = r.Links]
              /\ ret' = IF r.err THEN "error" ELSE "nil"
    /\ parsed' = parsed + 1
    /\ UNCHANGED <<rootDir, checkExternal, checkPublic, baseURL, verbose, fs, pc, fi, li,
                   now, log, brokenCount, made, patterns, noReport, extensions, exitCode>>

NextParse == ParseCall

SpecParse == InitParse /\ [][NextParse]_vars

----------------------------------------------------------------------------
(* applyIgnorePatterns called on one page *)

\* the most patterns in the ignore set
MaxPatterns == 2

\* the most links of the page
MaxIgnoreLinks == 2

PAT_A == <<"a">>
PAT_SLASH_A_START == <<"^", "/", "a">>
PAT_X_END == <<"x", "$">>
PAT_H_ANY_ANY_P == <<"h", ".", ".", "p">>
PAT_Z == <<"z">>

IgnorePatterns == {PAT_A, PAT_SLASH_A_START, PAT_X_END, PAT_H_ANY_ANY_P, PAT_Z}

\* links as the scanner builds them, and a link already marked ignored
IgnoreLinks ==
    { NewLink(u) : u \in {HTTP_X, PATH_A_DIR, MAIL_OK} }
    \cup { [NewLink(HTTP_X) EXCEPT !.Ignored = TRUE] }

InitIgnore ==
    /\ files \in { <<Page(q)>> : q \in SeqsUpTo(IgnoreLinks, MaxIgnoreLinks) }
    /\ patterns \in SeqsUpTo(IgnorePatterns, MaxPatterns)
    /\ pc = "filter"
    /\ rootDir = ROOT_S
    /\ checkExternal = FALSE
    /\ checkPublic = FALSE
    /\ baseURL = <<>>
    /\ verbose = FALSE
    /\ fs = {}
    /\ fi = 1
    /\ li = 1
    /\ now = 1
    /\ ret = "none"
    /\ log = <<>>
    /\ brokenCount = -1
    /\ made = <<>>
    /\ noReport = FALSE
    /\ extensions = <<>>
    /\ parsed = 0
    /\ exitCode = -1

\* a call applyIgnorePatterns(file, patterns) on the page
ApplyIgnoreCall ==
    /\ pc = "filter"
    /\ files' = [files EXCEPT ![1].Links = applyIgnorePatterns(files[1], patterns, 1).Links]
    /\ log' = log \o applyIgnorePatterns(files[1], patterns, 1).debug
    /\ made' = files[1].Links
    /\ pc' = "done"
    /\ UNCHANGED <<rootDir, checkExternal, checkPublic, baseURL, verbose, fs, fi, li,
                   now, ret, brokenCount, patterns, noReport, extensions, parsed, exitCode>>

NextIgnore == ApplyIgnoreCall

SpecIgnore == InitIgnore /\ [][NextIgnore]_vars

----------------------------------------------------------------------------
(* main from the loop over fileList to the exit *)

\* the texts of the pages: nothing, one line with [t](/a), and that line
\* followed by a line with <http://h/x>
MainTexts ==
    { <<>>,
      << <<[regex |-> 1, capture |-> PATH_A]>> >>,
      << <<[regex |-> 1, capture |-> PATH_A]>>, <<[regex |-> 2, capture |-> HTTP_X]>> >> }

InitMain ==
    /\ files \in { <<NewFile(x)>> : x \in MainTexts }
                 \cup { <<NewFile(x), NewFile(y)>> : x, y \in MainTexts }
    /\ patterns \in {<<>>, <<PAT_A>>, <<PAT_Z, PAT_X_END>>}
    /\ noReport \in BOOLEAN
    /\ extensions = <<>>
    /\ checkExternal \in BOOLEAN
    /\ rootDir = ROOT_S
    /\ fs = SiteFiles
    /\ checkPublic = FALSE
    /\ baseURL = <<>>
    /\ verbose = FALSE
    /\ pc = "parse"
    /\ parsed = 0
    /\ exitCode = -1
    /\ fi = 1
    /\ li = 1
    /\ now = 1
    /\ ret = "none"
    /\ log = <<>>
    /\ brokenCount = -1
    /\ made = <<>>

NextMain ==
    \/ ParseFails
    \/ ParseAndFilter
    \/ CallCheckLinks
    \/ CheckIgnored
    \/ CheckExternal
    \/ SkipExternal
    \/ CheckInternal
    \/ CheckLinksReturn
    \/ CountStep
    \/ Exit

SpecMain == InitMain /\ [][NextMain]_vars

----------------------------------------------------------------------------
(* main after CheckLinks has returned nil: the count and the exit code *)

\* the most broken links of a run
MaxBroken == 257

\* the numbers of broken links: a few, and those around the largest exit code
BrokenCounts == 0..2 \cup (MaxBroken - 3)..MaxBroken

\* n times the link x
Repeat(x, n) == [i \in 1..n |-> x]

\* validated links that count as broken
BrokenLinks ==
    { [MkLink(PATH_M, LinkTypeInternal, FALSE) EXCEPT !.StatusCode = 404,
                                                      !.ErrorMessage = FILE_NOT_FOUND],
      [MkLink(HTTP_X, LinkTypeExternal, FALSE) EXCEPT !.StatusCode = 0,
                                                     !.ErrorMessage = FILE_NOT_FOUND] }

\* validated links that do not count
SoundLinks ==
    { [MkLink(PATH_A, LinkTypeInternal, FALSE) EXCEPT !.StatusCode = 200],
      [MkLink(PATH_M, LinkTypeInternal, TRUE) EXCEPT !.StatusCode = 404,
                                                     !.ErrorMessage = FILE_NOT_FOUND] }

\* the most links on a page of the site
MaxPageLinks == 16

\* pages that hold n times the link x, each as full as can be
RECURSIVE PagesOf(_, _)
PagesOf(x, n) ==
    IF n = 0 THEN <<>>
    ELSE <<Page(Repeat(x, MinOf({n, MaxPageLinks})))>>
         \o PagesOf(x, n - MinOf({n, MaxPageLinks}))

\* a site with n broken links after a page without any
ExitSites ==
    { <<Page(q)>> \o PagesOf(b, n) :
        q \in SeqsUpTo(SoundLinks, 1), b \in BrokenLinks, n \in BrokenCounts }

InitExit ==
    /\ files \in ExitSites
    /\ noReport \in BOOLEAN
    /\ extensions = <<>>
    /\ patterns = <<>>
    /\ parsed = Len(files)
    /\ exitCode = -1
    /\ rootDir = ROOT_S
    /\ checkExternal = FALSE
    /\ checkPublic = FALSE
    /\ baseURL = <<>>
    /\ verbose = FALSE
    /\ fs = {}
    /\ pc = "count"
    /\ fi = Len(files) + 1
    /\ li = 1
    /\ now = 1
    /\ ret = "nil"
    /\ log = <<>>
    /\ brokenCount = -1
    /\ made = <<>>

NextExit == CountStep \/ Exit

SpecExit == InitExit /\ [][NextExit]_vars

----------------------------------------------------------------------------
(* CountBrokenLinks and the text report on pages with arbitrary link fields *)

A_MD == <<"a", ".", "m", "d">>
B_HTM == <<"b", ".", "H", "T", "M">>
C_TXT == <<"c", ".", "t", "x", "t">>

\* the pages with the paths of files
ReportPaths == {A_MD, B_HTM, C_TXT}

\* the same pages, each with a path
WithPaths(fl) ==
    { [f \in 1..Len(fl) |-> [Path |-> ps[f], Links |-> fl[f].Links]] :
        ps \in [1..Len(fl) -> ReportPaths] }

InitReport ==
    /\ files \in UNION { WithPaths(fl) : fl \in PageLists(CountLinks, MaxCountLinks) }
    /\ pc = "count"
    /\ made = <<>>
    /\ IdleCheck

NextReport == CountStep \/ TextReportCall

SpecReport == InitReport /\ [][NextReport]_vars

----------------------------------------------------------------------------
(* applyIgnorePatterns on one page, then CheckLinks on it, once and again *)

\* the latest reading of the clock at which CheckLinks is still called
MaxClock == 2

InitPasses ==
    /\ files \in { <<Page(q)>> : q \in SeqsUpTo(BatchLinks, MaxLinks) }
    /\ patterns \in {<<>>, <<PAT_X_END>>}
    /\ checkExternal \in BOOLEAN
    /\ pc = "filter"
    /\ rootDir = ROOT_S
    /\ checkPublic = FALSE
    /\ baseURL = <<>>
    /\ verbose = FALSE
    /\ fs = {}
    /\ fi = 1
    /\ li = 1
    /\ now = 1
    /\ ret = "none"
    /\ log = <<>>
    /\ brokenCount = -1
    /\ made = <<>>
    /\ noReport = FALSE
    /\ extensions = <<>>
    /\ parsed = 0
    /\ exitCode = -1

\* the caller calls CheckLinks on the pages, for the first time or again
CheckLinksCall ==
    /\ pc = "done"
    /\ ret # "error"
    /\ now <= MaxClock
    /\ pc' = "check"
    /\ ret' = "none"
    /\ fi' = FirstPageFrom(files, 1)
    /\ li' = 1
    /\ UNCHANGED <<files, rootDir, checkExternal, checkPublic, baseURL, verbose, fs,
                   now, log, brokenCount, made, patterns, noReport, extensions, parsed, exitCode>>

NextPasses ==
    \/ ApplyIgnoreCall
    \/ CheckLinksCall
    \/ CheckIgnored
    \/ CheckTemplate
    \/ CheckMailto
    \/ CheckExternal
    \/ SkipExternal
    \/ CheckInternal
    \/ CheckLinksReturn
    \/ CountStep

SpecPasses == InitPasses /\ [][NextPasses]_vars

----------------------------------------------------------------------------
(* EnumerateFiles called on generated directory trees *)

\* the most files of the tree
MaxTreeFiles == 3

\* files in and outside the directory s: with the extensions of pages in
\* either case, with another extension, with no dot, hidden, in a
\* subdirectory, in a hidden directory, in a directory named like a page
TreeFiles ==
    { <<"s", "/", "a", ".", "m", "d">>,
      <<"s", "/", "B", ".", "M", "D">>,
      <<"s", "/", "c", ".", "t", "x", "t">>,
      <<"s", "/", "a", "m", "d">>,
      <<"s", "/", ".", "h", ".", "m", "d">>,
      <<"s", "/", "d", "/", "e", ".", "h", "t", "m">>,
      <<"s", "/", ".", "g", "/", "f", ".", "m", "d">>,
      <<"s", "/", "x", ".", "m", "d", "/", "y", ".", "h", "t", "m", "l">>,
      <<"s", "a", ".", "m", "d">>,
      <<"t", "/", "a", ".", "m", "d">> }

\* the roots given: a directory in several spellings, a subdirectory, a
\* file, the working directory, a path that may not exist
TreeRoots ==
    { <<"s">>, <<"s", "/">>, <<".", "/", "s">>, <<"s", "/", "d">>,
      <<"s", "/", "a", ".", "m", "d">>, <<".">> }

\* the extension lists requested
TreeExtensions ==
    { <<DOT_MD, DOT_HTML, DOT_HTM>>, <<<<"m", "d">>>>, <<<<".", "M", "D">>>>, <<>> }

\* the subsets of S with at most n elements
RECURSIVE SubsetsUpTo(_, _)
SubsetsUpTo(S, n) ==
    IF n = 0 THEN {{}}
    ELSE SubsetsUpTo(S, n - 1)
         \cup { T \cup {x} : T \in SubsetsUpTo(S, n - 1), x \in S }

InitEnumerate ==
    /\ fs \in SubsetsUpTo(TreeFiles, MaxTreeFiles)
    /\ rootDir \in TreeRoots
    /\ extensions \in TreeExtensions
    /\ files = <<>>
    /\ pc = "enumerate"
    /\ checkExternal = FALSE
    /\ checkPublic = FALSE
    /\ baseURL = <<>>
    /\ verbose = FALSE
    /\ fi = 1
    /\ li = 1
    /\ now = 1
    /\ ret = "none"
    /\ log = <<>>
    /\ brokenCount = -1
    /\ made = <<>>
    /\ patterns = <<>>
    /\ noReport = FALSE
    /\ parsed = 0
    /\ exitCode = -1

NextEnumerate == EnumerateCall

SpecEnumerate == InitEnumerate /\ [][NextEnumerate]_vars

----------------------------------------------------------------------------
(* checkHugoFile and checkPublicFileVerbose called on a link path, with and *)
(* without verbose                                                          *)

\* link paths: found under their own name, through a layout, ignoring case,
\* not at all, with and without a final slash, with a dot, with ".."
LoopPaths ==
    { PATH_A, PATH_A_DIR, PATH_MISSING, <<"/">>, <<"a", ".", "a">>, <<"/", "A">>,
      <<"a", ".", "m", "d">>, <<"b", "/", "a", ".", "m", "d">>,
      <<".", ".", "/", "s", "/", "a">>, <<"a", "/", ".">>, PATH_UP }

InitLoop ==
    /\ files \in { <<Page(<<NewLink(u)>>)>> : u \in LoopPaths }
    /\ rootDir \in {ROOT_S, ROOT_IN_CONTENT, ROOT_CONTENT}
    /\ fs \in ResolveSites
    /\ checkExternal = FALSE
    /\ checkPublic \in BOOLEAN
    /\ baseURL = <<>>
    /\ verbose \in BOOLEAN
    /\ pc = "resolve"
    /\ fi = 1
    /\ li = 1
    /\ now = 1
    /\ ret = "none"
    /\ log = <<>>
    /\ brokenCount = -1
    /\ made = <<>>
    /\ MainIdle

NextLoop == ResolverCall

SpecLoop == InitLoop /\ [][NextLoop]_vars

----------------------------------------------------------------------------
(* CheckLinks called in the two local modes on two pages that lie in        *)
(* different directories and carry relative links                          *)

PAGE_TOP == <<"s", "/">> \o CONTENT \o <<"/", "a", ".", "m", "d">>
PAGE_SUB == <<"s", "/">> \o CONTENT \o <<"/", "b", "/", "c", ".", "m", "d">>

PATH_HERE == <<".", "/", "x", ".", "m", "d">>
PATH_NAME == <<"M", ".", "m", "d">>

\* the relative URLs of the links on the two pages
PageURLs == {PATH_HERE, PATH_UP, PATH_NAME}

\* the files the links can mean: beside either page, under the root, above
\* the root
PageFiles ==
    { <<"s", "/">> \o CONTENT \o <<"/", "x", ".", "m", "d">>,
      <<"s", "/">> \o CONTENT \o <<"/", "b", "/", "x", ".", "m", "d">>,
      <<"s", "/">> \o CONTENT \o <<"/", "b", "/", "M", ".", "m", "d">>,
      <<"s", "/", "x", ".", "m", "d">>,
      <<"s", "/">> \o PUBLIC \o <<"/", "x", ".", "m", "d">>,
      <<"x", ".", "m", "d">> }

\* a page at the given path with the given links
PageAt(path, links) == [Path |-> path, Links |-> links]

\* the links of a page: one relative link, or ../x.md and another
PageLinkLists ==
    { <<NewLink(u)>> : u \in PageURLs }
    \cup { <<NewLink(u), NewLink(v)>> : u \in {PATH_UP}, v \in {PATH_HERE, PATH_NAME} }

InitPages ==
    /\ files \in { <<PageAt(PAGE_TOP, q), PageAt(PAGE_SUB, r)>> :
                      q \in PageLinkLists, r \in PageLinkLists }
    /\ rootDir \in {ROOT_S, ROOT_CONTENT}
    /\ fs \in {{}} \cup { {f} : f \in PageFiles } \cup {PageFiles}
    /\ checkExternal = FALSE
    /\ checkPublic \in BOOLEAN
    /\ baseURL = <<>>
    /\ verbose \in BOOLEAN
    /\ pc = "check"
    /\ fi = 1
    /\ li = 1
    /\ now = 1
    /\ ret = "none"
    /\ log = <<>>
    /\ brokenCount = -1
    /\ made = <<>>
    /\ MainIdle

NextPages == CheckInternal \/ CheckLinksReturn

SpecPages == InitPages /\ [][NextPages]_vars

----------------------------------------------------------------------------
(* vocabulary of the properties *)

\* the positions of all links
Positions == UNION { { <<f, l>> : l \in 1..Len(files[f].Links) } : f \in 1..Len(files) }

\* the link at a position
LinkAt(p) == files[p[1]].Links[p[2]]

\* the status and error fields say "broken"
BadStatus(link) ==
    link.StatusCode >= 400 \/ (link.StatusCode = 0 /\ link.ErrorMessage # NoError)

\* the state (0, "")
Sentinel(link) == link.StatusCode = 0 /\ link.ErrorMessage = NoError

----------------------------------------------------------------------------
(* C1 *)

\* C1: CountBrokenLinks returns exactly the number of links that are not
\* ignored and have statusCode >= 400 or statusCode 0 with a non-empty error
\* message; ignored links and links in state (0, "") are never counted.
ThmC1_CountIsExact ==
    brokenCount # -1 =>
        /\ brokenCount = Cardinality({ p \in Positions : ~LinkAt(p).Ignored /\ BadStatus(LinkAt(p)) })
        /\ brokenCount <= Cardinality({ p \in Positions :
                                          ~LinkAt(p).Ignored /\ ~Sentinel(LinkAt(p)) })

\* C1 witness: one link is counted, next to an ignored link with a status >= 400
WitC1_IgnoredBrokenNotCounted ==
    /\ brokenCount = 1
    /\ \E p \in Positions : LinkAt(p).Ignored /\ LinkAt(p).StatusCode >= 400

----------------------------------------------------------------------------
(* C2 *)

\* C2: NewLink classifies a URL External exactly when it parses with a
\* non-empty scheme or host; the empty string, fragment-only URLs,
\* root-relative and relative paths and unparsable strings are Internal, and
\* mailto: URLs (that parse) are External.
ThmC2_Classification ==
    made # <<>> =>
        LET link == made[1]
            u    == link.URL
            p    == UrlParse(u)
        IN  /\ link.Type \in {LinkTypeInternal, LinkTypeExternal}
            /\ link.Type = LinkTypeExternal <=> (p.ok /\ (p.Scheme # <<>> \/ p.Host # <<>>))
            /\ u = <<>> => link.Type = LinkTypeInternal
            /\ HasPrefix(u, <<"#">>) => link.Type = LinkTypeInternal
            /\ (HasPrefix(u, <<"/">>) /\ ~HasPrefix(u, <<"/", "/">>)) => link.Type = LinkTypeInternal
            /\ HasPrefix(u, <<".">>) => link.Type = LinkTypeInternal
            /\ (HasPrefix(u, MAILTO) /\ p.ok) => link.Type = LinkTypeExternal
            /\ (HasPrefix(u, <<"h", "t", "t", "p", ":", "/", "/", "a">>) /\ p.ok)
                   => link.Type = LinkTypeExternal
            /\ link.Ignored = FALSE /\ link.StatusCode = 0 /\ link.LastChecked = 0

\* C2 witness: a mailto: URL has been classified External
WitC2_MailtoExternal ==
    /\ made # <<>>
    /\ made[1].URL = MAILTO \o <<"a", "@", "a">>
    /\ made[1].Type = LinkTypeExternal

----------------------------------------------------------------------------
(* vocabulary of the properties about CheckLinks *)

\* the loop of CheckLinks has finished the iteration of the link at p
Passed(p) == p[1] < fi \/ (p[1] = fi /\ p[2] < li)

\* the filesystem tests and network probes made for the link at p, in order
EventsOf(p) == SelectSeq(log, LAMBDA e : e.f = p[1] /\ e.l = p[2])

\* the link ended as valid
EndedOK(link) == link.StatusCode = 200 /\ link.ErrorMessage = NoError

\* the link is one CountBrokenLinks counts
Counted(link) == ~link.Ignored /\ BadStatus(link)

NetworkOps == {"HEAD", "GET", "MX", "A"}
HTTPOps == {"HEAD", "GET"}

----------------------------------------------------------------------------
(* C3 *)

\* C3: in every configuration a link that is ignored at the start of
\* CheckLinks ends with statusCode 200 and an empty error message, no
\* filesystem test and no network probe is made for it, and
\* CountBrokenLinks does not count it.
ThmC3_IgnoredLinks ==
    \A p \in Positions :
        LinkAt(p).Ignored =>
            /\ EventsOf(p) = <<>>
            /\ Passed(p) => EndedOK(LinkAt(p)) /\ ~Counted(LinkAt(p))
            /\ brokenCount # -1 =>
                   brokenCount <= Cardinality({ q \in Positions : ~LinkAt(q).Ignored })

\* C3 witness: an ignored external link has been passed with external
\* checking enabled, and the count has been taken
WitC3_IgnoredExternalPassed ==
    /\ checkExternal
    /\ brokenCount = 0
    /\ \E p \in Positions :
          /\ LinkAt(p).Ignored
          /\ LinkAt(p).Type = LinkTypeExternal
          /\ LinkAt(p).URL = HTTP_X
          /\ LinkAt(p).LastChecked # 0

----------------------------------------------------------------------------
(* C4 *)

\* C4: every link whose url contains "{{" or "}}" ends a CheckLinks pass with
\* statusCode 200 and an empty error message, whatever its kind and the
\* resolver mode, and is never resolved or probed.
ThmC4_TemplateLinks ==
    \A p \in Positions :
        (Contains(LinkAt(p).URL, <<"{", "{">>) \/ Contains(LinkAt(p).URL, <<"}", "}">>)) =>
            /\ EventsOf(p) = <<>>
            /\ Passed(p) => EndedOK(LinkAt(p))

\* C4 witness: an external link with "}}", not ignored, has been passed with
\* external checking enabled
WitC4_TemplateExternalPassed ==
    /\ checkExternal
    /\ \E p \in Positions :
          /\ LinkAt(p).URL = HTTP_TMPL
          /\ LinkAt(p).Type = LinkTypeExternal
          /\ ~LinkAt(p).Ignored
          /\ Passed(p)
          /\ LinkAt(p).StatusCode = 200

----------------------------------------------------------------------------
(* C5 *)

\* C5: after CheckLinks completes, every link of every page has a non-zero
\* lastChecked, including ignored links, template links, external links with
\* external checking disabled and links whose probe failed.
ThmC5_LastCheckedSet ==
    ret = "nil" => \A p \in Positions : LinkAt(p).LastChecked # 0

\* C5 witness: CheckLinks has returned and a link whose probe failed at
\* transport level carries a time
WitC5_FailedProbeHasTime ==
    /\ ret = "nil"
    /\ \E p \in Positions :
          /\ LinkAt(p).StatusCode = 0
          /\ LinkAt(p).ErrorMessage # NoError
          /\ LinkAt(p).LastChecked # 0
          /\ \E i \in 1..Len(log) : log[i].op = "GET" /\ ~log[i].ok

----------------------------------------------------------------------------
(* C6 *)

\* C6: whatever the per-link outcomes, CheckLinks returns no error and goes
\* on to every later link, in the same page and in later pages: once it has
\* stopped, it has returned nil, every link has been visited once, in order,
\* and a failure shows only in the failing link's statusCode/errorMessage.
ThmC6_FailuresDoNotAbort ==
    /\ ret # "error"
    /\ pc # "check" =>
          /\ ret = "nil"
          /\ \A p \in Positions : Passed(p) /\ LinkAt(p).LastChecked # 0
          /\ \A p, q \in Positions :
                (p[1] < q[1] \/ (p[1] = q[1] /\ p[2] < q[2]))
                    => LinkAt(p).LastChecked < LinkAt(q).LastChecked
    /\ \A p \in Positions :
          (Passed(p) /\ EventsOf(p) # <<>> /\ ~EventsOf(p)[Len(EventsOf(p))].ok)
              => BadStatus(LinkAt(p))

\* C6 witness: CheckLinks has returned nil, a link failed at transport level
\* and a later link was validated after it
WitC6_LaterLinkValidated ==
    /\ ret = "nil"
    /\ \E p, q \in Positions :
          /\ p[1] < q[1]
          /\ LinkAt(p).StatusCode = 0
          /\ LinkAt(p).ErrorMessage # NoError
          /\ EventsOf(q) # <<>>
          /\ LinkAt(q).LastChecked > LinkAt(p).LastChecked

----------------------------------------------------------------------------
(* C7 *)

\* C7: when checkExternal is false, no External link is counted as broken by
\* CountBrokenLinks after a CheckLinks pass, and no HTTP or DNS probe is
\* issued for any External link.
ThmC7_ExternalSkipped ==
    ~checkExternal =>
        /\ \A p \in Positions :
              LinkAt(p).Type = LinkTypeExternal =>
                  /\ \A i \in 1..Len(EventsOf(p)) : EventsOf(p)[i].op \notin NetworkOps
                  /\ Passed(p) => ~Counted(LinkAt(p))
        /\ brokenCount # -1 =>
              brokenCount <= Cardinality({ p \in Positions : LinkAt(p).Type # LinkTypeExternal })

\* C7 witness: with external checking disabled an http link, not ignored and
\* without template syntax, has been passed and the count is 0
WitC7_ExternalPassedUnprobed ==
    /\ ~checkExternal
    /\ brokenCount = 0
    /\ \E p \in Positions :
          /\ LinkAt(p).URL = HTTP_X
          /\ LinkAt(p).Type = LinkTypeExternal
          /\ ~LinkAt(p).Ignored
          /\ LinkAt(p).LastChecked # 0

----------------------------------------------------------------------------
(* C8 *)

\* C8 as stated: when checkExternal is false, CheckLinks performs no HTTP
\* probe for any link, for every value of baseURL and every kind of link.
CexC8_NoProbeWhenDisabled ==
    ~checkExternal => \A i \in 1..Len(log) : log[i].op \notin HTTPOps

\* C8 amended: when checkExternal is false, CheckLinks performs no HTTP probe
\* for any External link, for every value of baseURL; the HTTP probes it
\* still makes are those of Internal links in remote mode (baseURL non-empty),
\* addressed to baseURL joined with the link path.
ThmC8_NoExternalProbeWhenDisabled ==
    ~checkExternal =>
        \A i \in 1..Len(log) :
            log[i].op \in HTTPOps =>
                /\ LinkAt(<<log[i].f, log[i].l>>).Type = LinkTypeInternal
                /\ baseURL # <<>>
                /\ log[i].target = FullURL(baseURL, StrippedPath(LinkAt(<<log[i].f, log[i].l>>).URL))

\* C8 witness: with external checking disabled an Internal link was probed
\* over HTTP and an External link was passed without a probe
WitC8_InternalProbedExternalNot ==
    /\ ~checkExternal
    /\ \E p, q \in Positions :
          /\ LinkAt(p).Type = LinkTypeInternal
          /\ EventsOf(p) # <<>>
          /\ EventsOf(p)[1].op = "HEAD"
          /\ LinkAt(q).Type = LinkTypeExternal
          /\ LinkAt(q).URL = HTTP_X
          /\ Passed(q)
          /\ EventsOf(q) = <<>>

----------------------------------------------------------------------------
(* C9 *)

\* the link at p is one CheckLinks hands to checkExternalLink
IsHTTPChecked(p) ==
    /\ checkExternal
    /\ LinkAt(p).Type = LinkTypeExternal
    /\ ~LinkAt(p).Ignored
    /\ ~HasTemplateSyntax(LinkAt(p).URL)
    /\ ~HasPrefix(LinkAt(p).URL, MAILTO)

\* C9: for a non-mailto external link, whenever the HTTP probe obtains a
\* response, statusCode is the response's status code and errorMessage is
\* "HTTP <code>" for a code >= 400 and empty below; when HEAD and GET both
\* fail at transport level, statusCode is 0 and errorMessage is the
\* transport error text of the GET attempt.
ThmC9_HTTPOutcome ==
    \A p \in Positions :
        (IsHTTPChecked(p) /\ Passed(p)) =>
            LET evs  == EventsOf(p)
                last == evs[Len(evs)]
                link == LinkAt(p)
            IN  /\ evs # <<>>
                /\ \A i \in 1..Len(evs) : evs[i].op \in HTTPOps /\ evs[i].target = link.URL
                /\ last.ok =>
                      /\ link.StatusCode = last.code
                      /\ last.code >= 400 => link.ErrorMessage = Msg("HTTP %d", last.code, <<>>)
                      /\ last.code < 400 => link.ErrorMessage = NoError
                /\ ~last.ok =>
                      /\ last.op = "GET"
                      /\ evs[1].op = "HEAD" /\ ~evs[1].ok
                      /\ link.StatusCode = 0
                      /\ link.ErrorMessage = TransportError(GETNAME, link.URL, last.reason)

\* C9 witness: a probe was answered with 400 and the link carries "HTTP 400"
WitC9_Status400 ==
    \E p \in Positions :
        /\ IsHTTPChecked(p)
        /\ Passed(p)
        /\ LinkAt(p).StatusCode = 400
        /\ LinkAt(p).ErrorMessage = Msg("HTTP %d", 400, <<>>)

----------------------------------------------------------------------------
(* C10 *)

\* the link at p is one CheckLinks hands to checkMailtoLink
IsMailtoChecked(p) ==
    /\ checkExternal
    /\ LinkAt(p).Type = LinkTypeExternal
    /\ ~LinkAt(p).Ignored
    /\ ~HasTemplateSyntax(LinkAt(p).URL)
    /\ HasPrefix(LinkAt(p).URL, MAILTO)

\* the URL cannot be parsed, has an empty address, or its address does not
\* split into exactly two parts at "@"
Malformed(url) ==
    \/ ~UrlParse(url).ok
    \/ UrlParse(url).Opaque = <<>>
    \/ Cardinality({ i \in 1..Len(UrlParse(url).Opaque) : UrlParse(url).Opaque[i] = "@" }) # 1

\* C10: for a mailto: link with external checking enabled, a malformed URL
\* yields statusCode 0 with a non-empty error and no DNS lookup; otherwise
\* the mail-exchange lookup is made first, the host-record lookup only if the
\* mail-exchange lookup fails, and the link ends with status 200 and an empty
\* error iff one of the two lookups succeeds, else with status 0 and a
\* "Domain not found" error.
ThmC10_MailtoOutcome ==
    \A p \in Positions :
        (IsMailtoChecked(p) /\ Passed(p)) =>
            LET evs  == EventsOf(p)
                link == LinkAt(p)
            IN  IF Malformed(link.URL)
                THEN /\ link.StatusCode = 0
                     /\ link.ErrorMessage # NoError
                     /\ evs = <<>>
                ELSE /\ Len(evs) \in {1, 2}
                     /\ evs[1].op = "MX"
                     /\ Len(evs) = 2 <=> ~evs[1].ok
                     /\ Len(evs) = 2 => evs[2].op = "A"
                     /\ \A i \in 1..Len(evs) :
                           evs[i].target = CutAfter(UrlParse(link.URL).Opaque, <<"@">>)
                     /\ EndedOK(link) <=> \E i \in 1..Len(evs) : evs[i].ok
                     /\ ~EndedOK(link) =>
                           /\ link.StatusCode = 0
                           /\ link.ErrorMessage.fmt = "Domain not found: %s"

\* C10 witness: the mail-exchange lookup failed, the host-record lookup
\* succeeded and the link ended with status 200
WitC10_FallbackLookup ==
    \E p \in Positions :
        /\ IsMailtoChecked(p)
        /\ Passed(p)
        /\ Len(EventsOf(p)) = 2
        /\ ~EventsOf(p)[1].ok
        /\ EventsOf(p)[2].ok
        /\ LinkAt(p).StatusCode = 200

----------------------------------------------------------------------------
(* C11 *)

\* the link at p is one CheckLinks hands to checkInternalLink
IsInternalChecked(p) ==
    /\ LinkAt(p).Type = LinkTypeInternal
    /\ ~LinkAt(p).Ignored
    /\ ~HasTemplateSyntax(LinkAt(p).URL)

\* the candidate path exists under its own name, or it looks like a source
\* document and its directory has an entry equal to its last element
\* ignoring case
CandidateExists(c) ==
    \/ Exists(c)
    \/ /\ \/ ToLower(Ext(c)) \in {DOT_MD, DOT_MARKDOWN}
          \/ Contains(c, SLASH_CONTENT_SLASH)
       /\ \E n \in Entries(Dir(c)) : EqualFold(n, Base(c))

\* the elements of a sequence
Elements(s) == { s[i] : i \in 1..Len(s) }

\* the candidate paths checkHugoFile generates for the link at p
CandidatesOf(p) ==
    HugoCandidates(TrimPrefix(StrippedPath(LinkAt(p).URL), <<"/">>), rootDir)

\* C11: in local source-tree mode an internal link with a non-empty stripped
\* path ends with status 200 and an empty error iff one of its candidate
\* paths exists (exactly, or ignoring case for a source-document candidate),
\* and with status 404 and a non-empty error otherwise; with content/a.md
\* under the root, /a/ ends 200 and /aa/ ends 404.
ThmC11_LocalResolution ==
    \A p \in Positions :
        (/\ IsInternalChecked(p) /\ Passed(p)
         /\ baseURL = <<>> /\ ~checkPublic
         /\ StrippedPath(LinkAt(p).URL) # <<>>) =>
            LET link  == LinkAt(p)
                found == \E c \in Elements(CandidatesOf(p)) : CandidateExists(c)
            IN  /\ EndedOK(link) <=> found
                /\ ~found => link.StatusCode = 404 /\ link.ErrorMessage # NoError
                /\ (rootDir = ROOT_S /\ ABOUT_MD \in fs /\ link.URL = PATH_A_DIR)
                      => EndedOK(link)
                /\ (rootDir = ROOT_S /\ fs = {ABOUT_MD} /\ link.URL = PATH_MISSING)
                      => link.StatusCode = 404

\* C11 witness: with content/a.md under the root, the link /a/ was resolved
\* in local source-tree mode and ended 200
WitC11_AboutFound ==
    /\ rootDir = ROOT_S /\ ABOUT_MD \in fs /\ baseURL = <<>> /\ ~checkPublic
    /\ \E p \in Positions :
          /\ IsInternalChecked(p) /\ Passed(p)
          /\ LinkAt(p).URL = PATH_A_DIR
          /\ EndedOK(LinkAt(p))
          /\ EventsOf(p) # <<>>

----------------------------------------------------------------------------
(* C12 *)

\* the link at p is resolved in local source-tree mode
IsLocalSource(p) ==
    /\ IsInternalChecked(p)
    /\ baseURL = <<>> /\ ~checkPublic
    /\ StrippedPath(LinkAt(p).URL) # <<>>

\* <root>/content/<base>.md, <root>/content/<base>/index.md and
\* <root>/content/<base>/_index.md for the link path without its leading and
\* trailing slash, as cleaned paths
ContentLayouts(root, path) ==
    LET base == TrimSuffix(TrimPrefix(path, <<"/">>), <<"/">>)
        dir  == root \o <<"/">> \o CONTENT \o <<"/">>
    IN  { Clean(dir \o base \o DOT_MD),
          Clean(dir \o base \o <<"/">> \o INDEX_MD),
          Clean(dir \o base \o <<"/">> \o UINDEX_MD) }

\* the three content layouts are candidates of the link at p, and all three
\* were tested when the link was not found
LayoutsGenerated(p) ==
    LET want == ContentLayouts(rootDir, StrippedPath(LinkAt(p).URL))
    IN  /\ want \subseteq Elements(CandidatesOf(p))
        /\ LinkAt(p).StatusCode = 404 =>
              want \subseteq { e.target : e \in { x \in Elements(EventsOf(p)) : x.op = "stat" } }

\* C12 as stated: for every link path ending in "/" in local source-tree
\* mode the candidate list contains the three content layouts of the path
\* without its leading and trailing slash.
CexC12_LayoutsForEverySlashPath ==
    \A p \in Positions :
        (IsLocalSource(p) /\ Passed(p)
         /\ HasSuffix(StrippedPath(LinkAt(p).URL), <<"/">>)) => LayoutsGenerated(p)

\* C12 amended: the same for every link path that still ends in "/" once its
\* one leading slash is removed, that is, every such path but "/" itself.
ThmC12_LayoutsForSlashPath ==
    \A p \in Positions :
        (IsLocalSource(p) /\ Passed(p)
         /\ HasSuffix(TrimPrefix(StrippedPath(LinkAt(p).URL), <<"/">>), <<"/">>)) =>
            LayoutsGenerated(p)

\* C12 witness: the link /a/ was not found in local source-tree mode after
\* content/a.md, content/a/index.md and content/a/_index.md were tested
WitC12_SlashPathLayoutsTested ==
    \E p \in Positions :
        /\ IsLocalSource(p) /\ Passed(p)
        /\ rootDir = ROOT_S
        /\ LinkAt(p).URL = PATH_A_DIR
        /\ LinkAt(p).StatusCode = 404
        /\ LayoutsGenerated(p)
        /\ ABOUT_MD \in ContentLayouts(rootDir, PATH_A_DIR)

----------------------------------------------------------------------------
(* C13 *)

\* the path looks like a source document: extension .md or .markdown, or
\* "/content/" in the path
LooksLikeSource(c) ==
    \/ ToLower(Ext(c)) = DOT_MD
    \/ ToLower(Ext(c)) = DOT_MARKDOWN
    \/ Contains(c, SLASH_CONTENT_SLASH)

\* the path does not exist under its own name but its directory has an entry
\* equal to its last element ignoring case
ExistsFolded(c) ==
    /\ ~Exists(c)
    /\ \E n \in Entries(Dir(c)) : EqualFold(n, Base(c))

UPPER_A_MD == <<"s", "/">> \o CONTENT \o <<"/", "A", ".", "m", "d">>

\* C13: in local source-tree mode a link with a source-document candidate
\* that exists only under a name of different case ends 200 with an empty
\* error, and a directory is listed for the fallback only on behalf of a
\* candidate that looks like a source document and does not exist under its
\* exact name; a link whose candidates exist under another case only where
\* they do not look like source documents is not found.
ThmC13_CaseInsensitiveFallback ==
    \A p \in Positions :
        (IsLocalSource(p) /\ Passed(p)) =>
            LET cands == Elements(CandidatesOf(p))
            IN  /\ (\E c \in cands : LooksLikeSource(c) /\ ExistsFolded(c))
                      => EndedOK(LinkAt(p))
                /\ \A e \in Elements(EventsOf(p)) :
                      e.op = "readdir" =>
                          \E c \in cands :
                              /\ e.target = Dir(c)
                              /\ LooksLikeSource(c)
                              /\ ~Exists(c)
                /\ (\A c \in cands : ~Exists(c) /\ ~(LooksLikeSource(c) /\ ExistsFolded(c)))
                      => LinkAt(p).StatusCode = 404

\* C13 witness: with only content/A.md on disk the link /a was found through
\* the listing of the content directory
WitC13_UpperCaseFileFound ==
    \E p \in Positions :
        /\ IsLocalSource(p) /\ Passed(p)
        /\ rootDir = ROOT_S
        /\ fs = {UPPER_A_MD}
        /\ LinkAt(p).URL = PATH_A
        /\ EndedOK(LinkAt(p))
        /\ \E e \in Elements(EventsOf(p)) : e.op = "readdir" /\ e.ok

----------------------------------------------------------------------------
(* C14 *)

\* C14: an internal link whose URL is empty after removing everything from
\* the first "#" and then everything from the first "?" ends with status 200
\* and an empty error in local, built-output and remote mode alike, with no
\* filesystem path tested and no HTTP probe made for it.
ThmC14_EmptyPathFound ==
    \A p \in Positions :
        (IsInternalChecked(p) /\ Passed(p) /\ StrippedPath(LinkAt(p).URL) = <<>>) =>
            /\ EndedOK(LinkAt(p))
            /\ EventsOf(p) = <<>>

\* C14 witness: in remote mode the link #f was validated, ended 200 and no
\* request was made
WitC14_FragmentInRemoteMode ==
    /\ baseURL = BASE_URL
    /\ ret = "nil"
    /\ \E p \in Positions :
          /\ IsInternalChecked(p) /\ Passed(p)
          /\ LinkAt(p).URL = FRAGMENT
          /\ EndedOK(LinkAt(p))
          /\ LinkAt(p).LastChecked # 0
          /\ log = <<>>

----------------------------------------------------------------------------
(* C15 *)

HTTP_B_M == <<"h", "t", "t", "p", ":", "/", "/", "b", "/", "m">>

\* C15: for an internal link with a non-empty stripped path, when baseURL is
\* non-empty no filesystem path is tested and the link's status and error
\* are those of the HTTP probe of baseURL joined with the stripped path (the
\* response's code with "HTTP <code>" from 400 on, or 0 with the transport
\* error of the GET attempt); when baseURL is empty no HTTP probe is made
\* for the link.
ThmC15_RemoteOrLocal ==
    \A p \in Positions :
        (IsInternalChecked(p) /\ Passed(p) /\ StrippedPath(LinkAt(p).URL) # <<>>) =>
            LET evs  == EventsOf(p)
                last == evs[Len(evs)]
                link == LinkAt(p)
                full == FullURL(baseURL, StrippedPath(link.URL))
            IN  /\ baseURL # <<>> =>
                      /\ evs # <<>>
                      /\ \A e \in Elements(evs) : e.op \in HTTPOps /\ e.target = full
                      /\ (baseURL = BASE_URL /\ link.URL = PATH_M_FRAG) => full = HTTP_B_M
                      /\ last.ok =>
                            /\ link.StatusCode = last.code
                            /\ link.ErrorMessage =
                                  IF last.code >= 400 THEN Msg("HTTP %d", last.code, <<>>)
                                  ELSE NoError
                      /\ ~last.ok =>
                            /\ link.StatusCode = 0
                            /\ link.ErrorMessage = TransportError(GETNAME, full, last.reason)
                /\ baseURL = <<>> => \A e \in Elements(evs) : e.op \notin NetworkOps

\* C15 witness: in remote mode the link /m#f was probed at http://b/m,
\* answered 400, and ended with status 400 and "HTTP 400"
WitC15_RemoteProbe400 ==
    /\ baseURL = BASE_URL
    /\ \E p \in Positions :
          /\ IsInternalChecked(p) /\ Passed(p)
          /\ LinkAt(p).URL = PATH_M_FRAG
          /\ EventsOf(p) # <<>>
          /\ EventsOf(p)[1].target = HTTP_B_M
          /\ LinkAt(p).StatusCode = 400
          /\ LinkAt(p).ErrorMessage = Msg("HTTP %d", 400, <<>>)

----------------------------------------------------------------------------
(* C16 *)

\* the link at p is resolved in built-output mode
IsBuiltOutput(p) ==
    /\ IsInternalChecked(p)
    /\ baseURL = <<>> /\ checkPublic
    /\ StrippedPath(LinkAt(p).URL) # <<>>

\* the paths os.Stat was called on for the link at p
TestedFor(p) == { e.target : e \in { x \in Elements(EventsOf(p)) : x.op = "stat" } }

\* <siteRoot>/public
PublicDir(root) == Clean(HugoSiteRoot(root) \o <<"/">> \o PUBLIC)

\* the path is <siteRoot>/public or lies below it
UnderPublic(root, c) == c = PublicDir(root) \/ HasPrefix(c, PublicDir(root) \o <<"/">>)

\* the candidates as stated: the path under public and, when the path ends
\* in a separator or its last component has no extension, the path with
\* /index.html and with .html appended
StatedPublicCandidates(root, path) ==
    LET pub == HugoSiteRoot(root) \o <<"/">> \o PUBLIC \o <<"/">>
    IN  {Clean(pub \o path)}
        \cup (IF HasSuffix(path, <<"/">>) \/ Ext(path) = <<>>
              THEN {Clean(pub \o path \o <<"/">> \o INDEX_HTML), Clean(pub \o path \o DOT_HTML)}
              ELSE {})

\* the candidates for the path q without its one leading slash: q under
\* public; q/index.html when q ends in "/"; q/index.html and q.html when the
\* last component of q has no dot (the last component of the empty path and
\* of "/" being "." and "/")
ActualPublicCandidates(root, path) ==
    LET q   == TrimPrefix(path, <<"/">>)
        pub == HugoSiteRoot(root) \o <<"/">> \o PUBLIC \o <<"/">>
    IN  {Clean(pub \o q)}
        \cup (IF HasSuffix(q, <<"/">>) THEN {Clean(pub \o q \o <<"/">> \o INDEX_HTML)} ELSE {})
        \cup (IF ~Contains(Base(q), <<".">>)
              THEN {Clean(pub \o q \o <<"/">> \o INDEX_HTML), Clean(pub \o q \o DOT_HTML)}
              ELSE {})

\* the paths tested for the link at p are among cands, all of cands when the
\* link was not found; the link is found iff one of cands exists; no
\* directory is listed
TestsExactly(p, cands) ==
    /\ TestedFor(p) \subseteq cands
    /\ ~EndedOK(LinkAt(p)) => TestedFor(p) = cands
    /\ EndedOK(LinkAt(p)) <=> \E c \in cands : Exists(c)
    /\ \A e \in Elements(EventsOf(p)) : e.op = "stat"

PUBLIC_A_HTML == <<"s", "/">> \o PUBLIC \o <<"/", "a">> \o DOT_HTML

----------------------------------------------------------------------------
(* C17 *)

\* the URLs of the link notations of a text, line by line and left to right
RECURSIVE InTextOrder(_)
InTextOrder(text) ==
    IF text = <<>> THEN <<>>
    ELSE [i \in 1..Len(Head(text)) |-> CleanCapture(Head(text)[i].capture)]
         \o InTextOrder(Tail(text))

\* the sequence without "", "#" and repetitions, each URL at its first place
RECURSIVE FirstOccurrences(_, _)
FirstOccurrences(urls, out) ==
    IF urls = <<>> THEN out
    ELSE IF Head(urls) \in {<<>>, <<"#">>} \/ Head(urls) \in Elements(out)
         THEN FirstOccurrences(Tail(urls), out)
    ELSE FirstOccurrences(Tail(urls), Append(out, Head(urls)))

\* the URLs of a File's links, in order
URLsOf(file) == [i \in 1..Len(file.Links) |-> file.Links[i].URL]

\* C17 as stated: in every state, after any number of ParseLinksFromFile
\* calls on the same File, no two links of the File have the same url, and
\* after a call that read the whole text the urls stand in the order of
\* their first occurrences in the text.
CexC17_NoDuplicateLinks ==
    \A f \in 1..Len(files) :
        /\ \A i, j \in 1..Len(files[f].Links) :
              files[f].Links[i].URL = files[f].Links[j].URL => i = j
        /\ ret = "nil" => URLsOf(files[f]) = FirstOccurrences(InTextOrder(files[f].Text), <<>>)

----------------------------------------------------------------------------
(* C18 *)

\* some stretch url[i..j] of the URL is the pattern's body, "." standing for
\* any character; the stretch starts the URL under "^" and ends it under "$"
Found(pat, url) ==
    \E i \in 1..(Len(url) + 1) : \E j \in (i - 1)..Len(url) :
        /\ j - i + 1 = Len(PatternBody(pat))
        /\ \A k \in 1..(j - i + 1) : PatternBody(pat)[k] \in {".", url[i + k - 1]}
        /\ HasPrefix(pat, <<"^">>) => i = 1
        /\ HasSuffix(pat, <<"$">>) => j = Len(url)

\* the DEBUG lines written for link l of the page
DebugLinesOf(l) == SelectSeq(log, LAMBDA e : e.op = "ignore" /\ e.f = 1 /\ e.l = l)

\* C18: after applyIgnorePatterns a link is as it was, except that its
\* ignored flag is true iff it was true before or a pattern of the set is
\* found somewhere in its url; the patterns are tested in order up to the
\* first match, reported once; with an empty set nothing changes.
ThmC18_IgnoreFilter ==
    pc = "done" =>
        /\ Len(files[1].Links) = Len(made)
        /\ \A l \in 1..Len(made) :
              LET hits == { k \in 1..Len(patterns) : Found(patterns[k], made[l].URL) }
              IN  /\ files[1].Links[l] =
                        [made[l] EXCEPT !.Ignored = made[l].Ignored \/ hits # {}]
                  /\ hits = {} => DebugLinesOf(l) = <<>>
                  /\ hits # {} =>
                        /\ Len(DebugLinesOf(l)) = 1
                        /\ \A k \in hits : DebugLinesOf(l)[1].code <= k
                        /\ DebugLinesOf(l)[1].code \in hits
                        /\ DebugLinesOf(l)[1].reason = patterns[DebugLinesOf(l)[1].code]
        /\ patterns = <<>> => files[1].Links = made /\ log = <<>>
        /\ \A l \in 1..Len(made) :
              /\ (patterns = <<PAT_A>> /\ made[l].URL = PATH_A_DIR) => files[1].Links[l].Ignored
              /\ (patterns = <<PAT_SLASH_A_START>> /\ made[l] = NewLink(MAIL_OK))
                    => ~files[1].Links[l].Ignored

\* C18 witness: with the patterns a and ^/a, the link /a/ was marked by the
\* first of them, the link http://h/x was left alone, and one DEBUG line was
\* written
WitC18_FirstPatternMarks ==
    /\ pc = "done"
    /\ patterns = <<PAT_A, PAT_SLASH_A_START>>
    /\ made = <<NewLink(PATH_A_DIR), NewLink(HTTP_X)>>
    /\ files[1].Links[1].Ignored
    /\ ~files[1].Links[2].Ignored
    /\ Len(log) = 1
    /\ log[1].code = 1

----------------------------------------------------------------------------
(* C19 *)

\* the filesystem tests and network probes made for the link at p
ChecksOf(p) == SelectSeq(EventsOf(p), LAMBDA e : e.op \in NetworkOps \cup {"stat", "readdir"})

\* C19 as stated: in every run every link that CheckLinks has validated had
\* the ignore filter applied before, so that a link matching an ignore
\* pattern is marked ignored and is never resolved or probed, also on a page
\* whose extraction ended with a read error after links had been extracted.
CexC19_FilterBeforeValidation ==
    \A p \in Positions :
        (Passed(p) /\ \E k \in 1..Len(patterns) : Found(patterns[k], LinkAt(p).URL)) =>
            /\ LinkAt(p).Ignored
            /\ ChecksOf(p) = <<>>
            /\ EndedOK(LinkAt(p))

----------------------------------------------------------------------------
(* C20 *)

\* the process has exited
Exited == exitCode # -1

\* GenerateReport was called and returned an error
ReportFailed == \E i \in 1..Len(log) : log[i].op = "report" /\ ~log[i].ok

\* C20: when the process has exited without a fatal error, with -no-report
\* or without it, the exit code is the smaller of CountBrokenLinks(pages)
\* and 255: it is 0 exactly when no link is broken.
ThmC20_ExitCodeIsCappedCount ==
    (Exited /\ ~ReportFailed) =>
        /\ exitCode = MinOf({CountBrokenLinks(files), 255})
        /\ (exitCode = 0 <=> CountBrokenLinks(files) = 0)

\* a run with a report and more than 255 broken links has ended with 255
WitC20_CappedWithReport ==
    /\ Exited
    /\ ~noReport
    /\ ~ReportFailed
    /\ CountBrokenLinks(files) > 255
    /\ exitCode = 255

----------------------------------------------------------------------------
(* C21 *)

\* the report has been written
Reported == pc = "reported"

\* the "Broken links" figure of the report
SummaryFigure == (SelectSeq(log, LAMBDA e : e.op = "summary"))[1].code

\* the links the report lists as broken
ListedBroken == { <<log[i].f, log[i].l>> : i \in { j \in 1..Len(log) : log[j].op = "broken" } }

\* the links CountBrokenLinks counts
CountedBroken ==
    { p \in UNION { {<<f, l>> : l \in 1..Len(files[f].Links)} : f \in 1..Len(files) } :
        CountPage(<<files[p[1]].Links[p[2]]>>) = 1 }

\* C21 as stated: for every collection of pages and every combination of
\* link fields, the BrokenLinks figure of calculateSummary and the set of
\* links the text report lists as broken agree with CountBrokenLinks.
CexC21_ReportAgreesWithCount ==
    Reported =>
        /\ SummaryFigure = brokenCount
        /\ ListedBroken = CountedBroken

----------------------------------------------------------------------------
(* C22 *)

\* a step keeps the pages, the links of every page in their places, the url
\* and the kind of every link, and every ignored flag that is set
LinksFramed ==
    /\ Len(files') = Len(files)
    /\ \A f \in 1..Len(files) :
          /\ Len(files'[f].Links) = Len(files[f].Links)
          /\ \A l \in 1..Len(files[f].Links) :
                /\ files'[f].Links[l].URL = files[f].Links[l].URL
                /\ files'[f].Links[l].Type = files[f].Links[l].Type
                /\ files[f].Links[l].Ignored => files'[f].Links[l].Ignored

\* C22: across applyIgnorePatterns and any number of CheckLinks passes no
\* link's url or kind changes, no ignored flag goes from true to false, and
\* no link is added to, removed from or reordered within a page.
ThmC22_LinksFramed == [][LinksFramed]_vars

\* a link that was ignored before the filter ran, matched by no pattern, has
\* been passed over by CheckLinks twice and is still ignored
WitC22_IgnoredKeptOverTwoPasses ==
    /\ pc = "done"
    /\ brokenCount >= 0
    /\ \E l \in 1..Len(files[1].Links) :
          /\ made[l].Ignored
          /\ FirstMatch(patterns, files[1].Links[l].URL) = 0
          /\ files[1].Links[l].Ignored
          /\ files[1].Links[l].LastChecked > Len(files[1].Links)

----------------------------------------------------------------------------
(* C23 *)

\* EnumerateFiles has returned without error
Enumerated == pc = "done" /\ ret = "nil"

\* the file p lies under the root: it is the root or lies below it
UnderRoot(p) ==
    \/ p = Clean(rootDir)
    \/ HasPrefix(p, Clean(rootDir) \o <<"/">>)
    \/ Clean(rootDir) = <<".">> /\ ~HasPrefix(p, <<"/">>)

\* p ends, ignoring case, with one of the strings in exts
EndsWithOneOf(p, exts) == \E i \in 1..Len(exts) : HasSuffix(ToLower(p), ToLower(exts[i]))

\* the requested extensions, each with a leading dot
Dotted(exts) ==
    [i \in 1..Len(exts) |-> IF exts[i] # <<>> /\ exts[i][1] = "." THEN exts[i]
                             ELSE <<".">> \o exts[i]]

\* the base name of p: what follows its last slash
BaseName(p) == Drop(p, LastIndex(p, <<"/">>))

\* the keys of the files returned
ReturnedKeys == { files[i].CanonicalPath : i \in 1..Len(files) }

\* what is returned is, once each, the files of wanted keyed by their
\* cleaned absolute paths
ReturnsExactly(wanted) ==
    /\ ReturnedKeys = { Clean(CWD \o <<"/">> \o p) : p \in wanted }
    /\ Len(files) = Cardinality(wanted)
    /\ \A i \in 1..Len(files) :
          /\ Clean(files[i].Path) \in wanted
          /\ files[i].CanonicalPath = Clean(CWD \o <<"/">> \o files[i].Path)

\* C23 as stated: the files returned are the files under the root whose
\* path ends, ignoring case, with one of the requested extensions as they
\* were requested, and whose base name does not begin with a dot.
CexC23_EndsWithRequestedExtension ==
    Enumerated =>
        ReturnsExactly({ p \in fs : /\ UnderRoot(p)
                                    /\ EndsWithOneOf(p, extensions)
                                    /\ BaseName(p)[1] # "." })

\* C23: EnumerateFiles returns exactly the files under the root, those in
\* subdirectories included, whose path ends, ignoring case, with one of the
\* requested extensions, a dot put in front of an extension requested
\* without one, and whose base name does not begin with a dot, each exactly
\* once and keyed by its cleaned absolute path.
ThmC23_EnumeratedFiles ==
    Enumerated =>
        ReturnsExactly({ p \in fs : /\ UnderRoot(p)
                                    /\ EndsWithOneOf(p, Dotted(extensions))
                                    /\ BaseName(p)[1] # "." })

\* of a page in a subdirectory, a hidden page and a text file, the page in
\* the subdirectory alone was returned
WitC23_SubdirectoryPageOnly ==
    /\ Enumerated
    /\ rootDir = <<"s">>
    /\ fs = { <<"s", "/", "d", "/", "e", ".", "h", "t", "m">>,
              <<"s", "/", ".", "h", ".", "m", "d">>,
              <<"s", "/", "c", ".", "t", "x", "t">> }
    /\ Len(files) = 1
    /\ files[1].CanonicalPath = <<"/", "w", "/", "s", "/", "d", "/", "e", ".", "h", "t", "m">>

----------------------------------------------------------------------------
(* C24 *)

\* C24: for a non-mailto external link the first request of the probe is
\* a HEAD; a GET is issued at most once, as the second and last request,
\* and exactly when the HEAD failed at transport level: a HEAD that got a
\* response, whatever its status, is the only request.
ThmC24_HeadThenGetOnce ==
    \A p \in Positions :
        (IsHTTPChecked(p) /\ Passed(p)) =>
            LET evs == EventsOf(p)
            IN  /\ Len(evs) \in {1, 2}
                /\ evs[1].op = "HEAD"
                /\ evs[1].ok => Len(evs) = 1
                /\ ~evs[1].ok => (Len(evs) = 2 /\ evs[2].op = "GET")

\* a HEAD was answered with 400 and no other request was made for the link
WitC24_Head400IsFinal ==
    \E p \in Positions :
        /\ IsHTTPChecked(p)
        /\ Passed(p)
        /\ Len(EventsOf(p)) = 1
        /\ EventsOf(p)[1].op = "HEAD"
        /\ EventsOf(p)[1].ok
        /\ EventsOf(p)[1].code = 400

----------------------------------------------------------------------------
(* C25 *)

\* the resolver has returned
Resolved == pc = "done" /\ log # <<>> /\ log[Len(log)].op = "return"

\* the candidates of the link path in the order of their generation
Generated ==
    LET linkPath == TrimPrefix(StrippedPath(files[1].Links[1].URL), <<"/">>)
    IN  IF checkPublic THEN PublicCandidates(linkPath, rootDir)
        ELSE HugoCandidates(linkPath, rootDir)

\* a sequence with every element at the place of its first occurrence only
WithoutRepeats(s) ==
    LET keep == { i \in 1..Len(s) : \A j \in 1..(i - 1) : s[j] # s[i] }
    IN  [k \in 1..Cardinality(keep) |->
            s[CHOOSE i \in keep : Cardinality({ j \in keep : j <= i }) = k]]

\* the paths os.Stat was called on, in order
TestedInOrder ==
    LET stats == SelectSeq(log, LAMBDA e : e.op = "stat")
    IN  [i \in 1..Len(stats) |-> stats[i].target]

\* the candidate resolves the link: it exists, or in source-tree mode it
\* exists ignoring case
Resolves(c) == IF checkPublic THEN Exists(c) ELSE CandidateExists(c)

\* the list ends with the target of a case-insensitive match of c
EndsWithFoldTarget(list, c) ==
    LET target == list[Len(list)]
    IN  /\ Exists(target)
        /\ Dir(target) = Dir(c)
        /\ EqualFold(Base(target), Base(c))

\* C25: the candidates are tested in generation order, each distinct path
\* once, and testing stops at the first that exists, exactly or ignoring
\* case; a link not found has had every deduplicated candidate tested.
\* With verbose the list returned is the sequence of the candidates tested,
\* followed by the target of the case-insensitive match when that resolved
\* the link.
ThmC25_TestOrderAndDiagnostics ==
    Resolved =>
        LET tested  == TestedInOrder
            all     == WithoutRepeats(Generated)
            found   == log[Len(log)].ok
            checked == log[Len(log)].reason
            n       == Len(tested)
        IN  /\ n >= 1 /\ n <= Len(all)
            /\ tested = SubSeq(all, 1, n)
            /\ \A i \in 1..(n - 1) : ~Resolves(tested[i])
            /\ found <=> Resolves(tested[n])
            /\ ~found => n = Len(all)
            /\ verbose =>
                  IF found /\ ~Exists(tested[n])
                  THEN /\ SubSeq(checked, 1, n) = tested
                       /\ Len(checked) = n + 1
                       /\ EndsWithFoldTarget(checked, tested[n])
                  ELSE checked = tested

\* with verbose, a link was resolved by a case-insensitive match after a
\* candidate that did not exist: the list returned has one path more than
\* were tested
WitC25_FoldTargetListed ==
    /\ Resolved
    /\ verbose
    /\ ~checkPublic
    /\ log[Len(log)].ok
    /\ Len(TestedInOrder) >= 2
    /\ ~Exists(TestedInOrder[Len(TestedInOrder)])
    /\ Len(log[Len(log)].reason) = Len(TestedInOrder) + 1
    /\ Len(Generated) > Len(WithoutRepeats(Generated))

----------------------------------------------------------------------------
(* C26 *)

\* the root lies inside a content subtree: one of its directories, not the
\* first, is named content
InContentSubtree(root) ==
    \E i \in 2..Len(Segments(root)) : Segments(root)[i] = CONTENT

\* the ancestor of the root that contains the first directory named content
AncestorOfContent(root) ==
    LET segs == Segments(root)
        i    == MinOf({ j \in 2..Len(segs) : segs[j] = CONTENT })
    IN  JoinSegments(SubSeq(segs, 1, i - 1))

\* the verbatim, static and content candidates of the link path under r, and
\* the three layouts under r/content for a path that ends in a slash
FamiliesUnder(r, linkPath) ==
    { Clean(r \o <<"/">> \o linkPath),
      Clean(r \o <<"/">> \o STATIC \o <<"/">> \o linkPath),
      Clean(r \o <<"/">> \o CONTENT \o <<"/">> \o linkPath) }
    \cup (IF HasSuffix(linkPath, <<"/">>) THEN ContentLayouts(r, linkPath) ELSE {})

\* C26 as stated: whenever the root lies inside a content subtree, the root
\* being the content directory itself included, a link that is not found in
\* source-tree mode has had every candidate family tested under the root
\* and under the ancestor directory that contains content.
CexC26_BothRootsInContentSubtree ==
    (Resolved /\ ~checkPublic /\ InContentSubtree(rootDir) /\ ~log[Len(log)].ok) =>
        LET linkPath == TrimPrefix(StrippedPath(files[1].Links[1].URL), <<"/">>)
        IN  FamiliesUnder(rootDir, linkPath) \cup FamiliesUnder(AncestorOfContent(rootDir), linkPath)
                \subseteq Elements(TestedInOrder)

----------------------------------------------------------------------------
(* C27 *)

\* CheckLinks has returned nil
Returned == pc \in {"count", "done"} /\ ret = "nil"

\* C27: after CheckLinks has returned, every link has an empty errorMessage
\* iff its statusCode is between 1 and 399, statusCode 0 comes with a
\* non-empty errorMessage, the state (0, "") does not occur, and a link that
\* is not ignored is counted as broken iff its errorMessage is non-empty.
ThmC27_StatusErrorConsistent ==
    Returned =>
        \A p \in Positions :
            LET link == LinkAt(p)
            IN  /\ link.ErrorMessage = NoError <=> link.StatusCode \in 1..399
                /\ link.StatusCode = 0 => link.ErrorMessage # NoError
                /\ ~Sentinel(link)
                /\ ~link.Ignored =>
                      (CountPage(<<link>>) = 1 <=> link.ErrorMessage # NoError)

\* CheckLinks has returned with a link at status 0 and an error and a link
\* at 404
WitC27_ZeroAndNotFound ==
    /\ Returned
    /\ \E p \in Positions : LinkAt(p).StatusCode = 0 /\ LinkAt(p).ErrorMessage # NoError
    /\ \E p \in Positions : LinkAt(p).StatusCode = 404 /\ LinkAt(p).ErrorMessage # NoError

----------------------------------------------------------------------------
(* C28 *)

\* main has parsed and filtered the pages, CheckLinks has passed over all of
\* them and the broken links have been counted
PassCounted == pc = "done" /\ ret = "nil" /\ parsed = Len(files) /\ brokenCount >= 0

\* C28: after a complete CheckLinks pass over all pages the BrokenLinks
\* figure of calculateSummary, which does not look at the ignored flag,
\* equals CountBrokenLinks, which skips ignored links.
ThmC28_SummaryEqualsCount ==
    PassCounted =>
        /\ SummaryBrokenLinks(files) = CountBrokenLinks(files)
        /\ SummaryBrokenLinks(files) = brokenCount

\* after the pass one link is broken and counted by both, and a link that
\* an ignore pattern matched stands at 200
WitC28_IgnoredBesideBroken ==
    /\ PassCounted
    /\ brokenCount = 1
    /\ SummaryBrokenLinks(files) = 1
    /\ \E p \in Positions :
          /\ LinkAt(p).Ignored
          /\ FirstMatch(patterns, LinkAt(p).URL) # 0
          /\ LinkAt(p).StatusCode = 200

----------------------------------------------------------------------------
(* C29 *)

\* the pages lie in different directories
PagesApart ==
    /\ Len(files) = 2
    /\ Dir(files[1].Path) # Dir(files[2].Path)

\* the links at p and q are on different pages and carry the same URL
SameURLOnTwoPages(p, q) == p[1] # q[1] /\ LinkAt(p).URL = LinkAt(q).URL

----------------------------------------------------------------------------
(* C30 *)

\* the path is the directory or lies under it
Inside(dir, path) == path = Clean(dir) \/ HasPrefix(path, Clean(dir) \o <<"/">>)

\* the path lies inside the configured root or the derived site root
InsideRoots(path) == Inside(rootDir, path) \/ Inside(HugoSiteRoot(rootDir), path)

\* C30: every path tested while an internal link is resolved in a local
\* mode lies inside the configured root or the derived site root.
\* Violated: with root s the link ../x.md makes the file x.md beside s the
\* first path tested, and the link resolves as found when that file exists.
CexC30_TestedPathsInsideRoots ==
    Resolved => \A i \in 1..Len(TestedInOrder) : InsideRoots(TestedInOrder[i])

====
